---- MODULE Spec2Model ----
(***************************************************************************)
(* Model of the Wattpilot device client (src/src/wattpilot_api/client.py): *)
(* the connection lifecycle (connect / disconnect), the background read    *)
(* loop with its frame handlers, the property store with its named fields, *)
(* and the property-change and raw-message listeners.                      *)
(*                                                                         *)
(* Scheduling is asyncio's: the callers of connect() / disconnect() and    *)
(* the read-loop tasks are separate tasks that switch only at an await.    *)
(* A frame handler has no await (an asynchronous listener is only handed   *)
(* to the event loop as a task of its own), so the handling of one frame   *)
(* is one step.  Setting an event only schedules the waiter: the waiter    *)
(* resumes in a later step (woken).  The                                   *)
(* read loop takes the next frame without suspending when one is queued    *)
(* already, so it can handle further frames before a woken caller resumes; *)
(* when no frame is queued it suspends, and the woken caller runs before   *)
(* the loop can see that the transport was closed.                         *)
(***************************************************************************)
EXTENDS Integers, Sequences, FiniteSets, TLC

\* ---- bounds of the model --------------------------------------------------
MaxSessions == 2     \* transports opened in one run
MaxInbox == 1        \* frames a transport holds for the read loop
MaxBacklog == 2      \* the same, where the order of handling is examined
MaxRequests == 2     \* commands that get a request id in one run
MaxTimeout == 2      \* longest timeout of a polling call, in seconds
MaxScheduled == 2    \* listener tasks that wait for the event loop
MaxListeners == 2    \* registrations a listener list holds, duplicates included

Sessions == 1..MaxSessions

\* ---- values ---------------------------------------------------------------
\* Property values are 1 and 2; 0 stands for Python's None / an absent key.
Keys == {"amp", "acs", "ast", "cak", "tds"}

\* Synchronous listeners.  Those in Raising raise when they are called, the
\* others return.
Callbacks == {"cb1", "bad"}
MessageCallbacks == {"mcb", "mbad"}
RaisingWithCoroutines == {"bad", "mbad", "acb"}
Raising == {"bad", "mbad"}

\* Listeners that call their own unsubscribe function when they are called.
Unsubscribing == {"once"}

\* The property listeners of a run in which one unsubscribes itself.
OnceCallbacks == {"once", "cb1", "cb2"}

\* Asynchronous listeners (coroutine functions): calling one gives a
\* coroutine, which runs as a task later and fails there.
Coroutines == {"acb"}

\* The property listeners of a run with an asynchronous one.
AsyncCallbacks == {"cb1", "acb"}

\* The tasks that call the API.
Callers == {"main", "other"}

KV(k, v) == [k |-> k, v |-> v]

\* One received frame.  partial is "absent", "true" or "false"; message is the
\* text of an authError frame and requestId the id a response echoes (0 when
\* the frame has none).
Frame(t, p, s, ok, m, r) ==
    [type |-> t, partial |-> p, status |-> s, success |-> ok, message |-> m,
     requestId |-> r]

StatusAmp1 == << KV("amp", 1) >>
StatusAmp2Acs1 == << KV("amp", 2), KV("acs", 1) >>
StatusAcs2 == << KV("acs", 2) >>

NoFrame == Frame("none", "absent", <<>>, TRUE, 0, 0)

AuthSuccess == Frame("authSuccess", "absent", <<>>, TRUE, 0, 0)

FullStatus == Frame("fullStatus", "absent", StatusAmp1, TRUE, 0, 0)

\* The frames of the handshake and of initialization, with one status payload;
\* "malformed" is a text frame that is no JSON document.
SessionFrames ==
    { AuthSuccess,
      Frame("authError", "absent", <<>>, TRUE, 1, 0),
      Frame("fullStatus", "true", StatusAmp1, TRUE, 0, 0),
      Frame("fullStatus", "false", StatusAmp1, TRUE, 0, 0),
      FullStatus,
      Frame("deltaStatus", "absent", StatusAmp1, TRUE, 0, 0),
      Frame("malformed", "absent", <<>>, TRUE, 0, 0) }

\* The state frames of an established session, which write the same keys
\* with different values.
StateFrames ==
    { AuthSuccess,
      FullStatus,
      Frame("deltaStatus", "absent", StatusAmp2Acs1, TRUE, 0, 0),
      Frame("deltaStatus", "absent", StatusAcs2, TRUE, 0, 0),
      Frame("response", "absent", StatusAmp1, TRUE, 0, 1) }

\* The frames the client has nothing to do for: a type it does not know
\* ("unknownType"), the informational inverter frames and failed command
\* responses, with and without the request id.
AnomalousFrames ==
    { AuthSuccess,
      FullStatus,
      Frame("unknownType", "absent", <<>>, TRUE, 0, 0),
      Frame("clearInverters", "true", <<>>, TRUE, 0, 0),
      Frame("updateInverter", "false", <<>>, TRUE, 0, 0),
      Frame("response", "absent", <<>>, FALSE, 1, 1),
      Frame("response", "absent", <<>>, FALSE, 1, 0) }

\* The frames of two sessions that are open at the same time.
OverlapFrames ==
    { AuthSuccess,
      FullStatus,
      Frame("deltaStatus", "absent", StatusAcs2, TRUE, 0, 0) }

\* The greeting: serial and secured are <<>> when the frame has no such
\* field and hold the value otherwise; devicetype is "" when it has none.
Hello(serial, devicetype, secured) ==
    [type |-> "hello", partial |-> "absent", status |-> <<>>, success |-> TRUE,
     message |-> 0, requestId |-> 0, serial |-> serial,
     devicetype |-> devicetype, secured |-> secured]

\* The challenge; hash is the algorithm indicator, "absent" without one.
AuthRequired(hash) ==
    [type |-> "authRequired", partial |-> "absent", status |-> <<>>,
     success |-> TRUE, message |-> 0, requestId |-> 0, token1 |-> 1,
     token2 |-> 2, hash |-> hash]

\* The frames of a handshake: greetings of a plain and of a flex device,
\* challenges without an indicator, with one of the two algorithms and with
\* an indicator that is not known.
HandshakeFrames ==
    { Hello(<< "12345678" >>, "wattpilot", <<>>),
      Hello(<< "12345678" >>, "wattpilot_flex", <<>>),
      Hello(<< "AB345678" >>, "wattpilot_flex", <<>>),
      AuthRequired("absent"),
      AuthRequired("bcrypt"),
      AuthRequired("md5"),
      AuthSuccess,
      FullStatus }

\* The frames of a device that does or does not ask for signed commands:
\* greetings with secured 0 and 1 and without it, a challenge, and the
\* frames that let connect() return.
SecuredFrames ==
    { Hello(<< "12345678" >>, "wattpilot", << 0 >>),
      Hello(<< "12345678" >>, "wattpilot", << 1 >>),
      Hello(<< "12345678" >>, "wattpilot", <<>>),
      AuthRequired("absent"),
      AuthSuccess,
      FullStatus }

\* The frames of devices with two serials that ask for signed commands.
SecretFrames ==
    { Hello(<< "12345678" >>, "wattpilot", << 1 >>),
      Hello(<< "AB345678" >>, "wattpilot", << 1 >>),
      AuthRequired("absent"),
      AuthSuccess,
      FullStatus }

\* The frames of sessions whose greetings do and do not carry the secured
\* flag.
IdentityFrames ==
    { Hello(<< "12345678" >>, "wattpilot", << 1 >>),
      Hello(<< "12345678" >>, "wattpilot", <<>>),
      Hello(<< "12345678" >>, "", << 0 >>),
      AuthSuccess,
      FullStatus }

\* Successful command responses that carry one and two keys, next to the
\* frames that let connect() return.
ResponseFrames ==
    { AuthSuccess,
      FullStatus,
      Frame("response", "absent", StatusAmp2Acs1, TRUE, 0, 1),
      Frame("response", "absent", StatusAcs2, TRUE, 0, 2) }

\* The frames of a handshake that the device can refuse.
AuthFrames ==
    { AuthSuccess,
      Frame("authError", "absent", <<>>, TRUE, 1, 0),
      FullStatus }

\* A value passed to set_property: its Python type and its text.
Val(t, v) == [t |-> t, v |-> v]

\* The arguments of an API call: the property name and the value of
\* set_property, the timeout of a polling call.
Arg(name, value, timeout) == [name |-> name, value |-> value, timeout |-> timeout]

NoArg == Arg("", Val("NoneType", "None"), 0)

\* hash_password(password, serial, hash_type) for the password of the
\* client: the secret of a serial under an algorithm.  NoSecret is b"".
Secret(serial, hash_type) == [serial |-> serial, hash_type |-> hash_type]

NoSecret == Secret("", "")

VARIABLES
    ws,                     \* self._ws: 0 (None) or the transport
    task,                   \* self._message_loop_task: 0 (None) or the task
    connected,              \* self._connected
    all_props_initialized,  \* self._all_props_initialized
    connected_event,        \* self._connected_event is set
    initialized_event,      \* self._initialized_event is set
    auth_error,             \* self._auth_error: 0 (None) or the message
    all_props,              \* self._all_props: key -> value, 0 when absent
    amp,                    \* self._amp
    access_state,           \* self._access_state
    cak,                    \* self._cak
    request_id,             \* self._request_id
    sent,                   \* the frames handed to the transports, in order
    scheduled,              \* listener tasks: those not yet run, and whether one failed
    device,                 \* self._device: serial, device_type, secured
    auth_hash_type,         \* self._auth_hash_type
    hashed_password,        \* self._hashed_password
    property_callbacks,     \* self._property_callbacks
    message_callbacks,      \* self._message_callbacks
    loopState,              \* read-loop task of each session
    transport,              \* transport of each session
    inbox,                  \* frames received by each transport, in order
    calls,                  \* property-listener calls made for the frame handled last
    message_calls,          \* raw-message listeners called for that frame
    lastFrame,              \* the frame handled last
    fullSeen,               \* a fullStatus frame was handled in the session
    progress,               \* how far the session of self._ws is (see Progress)
    greeted,                \* a greeting was handled in the session of self._ws
    watching_properties,    \* the shell's self._watching_properties
    watchedHere,            \* properties watched on the shell's current client
    quiet,                  \* disconnect() has returned and no read loop was started since
    nextId,                 \* number of transports opened so far
    pc,                     \* where each caller of the API is
    woken,                  \* the event the caller waits for has been set
    op,                     \* the API call each caller made last
    arg,                    \* the arguments of that call
    elapsed,                \* the local variable elapsed of a polling call
    result                  \* how that call ended

\* The client object with the tasks and transports it owns.
clientVars == << ws, task, connected, all_props_initialized, connected_event,
                 initialized_event, auth_error, all_props, amp, access_state,
                 cak, request_id, sent, scheduled,
                    device, auth_hash_type, hashed_password,
                 loopState, transport, inbox, calls, message_calls >>

listenerVars == << property_callbacks, message_callbacks >>

callerVars == << pc, woken, op, arg, elapsed, result >>

shellVars == << watching_properties, watchedHere >>

vars == << clientVars, listenerVars, lastFrame, fullSeen, progress, greeted, shellVars, quiet, nextId,
           callerVars >>

\* The client object and the tasks and transports it owns, as one value; exc
\* tells that an exception is propagating out of the code that ran on it,
\* closed that this exception is the transport's ConnectionClosed.
Self ==
    [ ws |-> ws, task |-> task, connected |-> connected,
      all_props_initialized |-> all_props_initialized,
      connected_event |-> connected_event,
      initialized_event |-> initialized_event,
      auth_error |-> auth_error, all_props |-> all_props, amp |-> amp,
      access_state |-> access_state, cak |-> cak,
      request_id |-> request_id, sent |-> sent, scheduled |-> scheduled,
      device |-> device, auth_hash_type |-> auth_hash_type,
      hashed_password |-> hashed_password,
      loopState |-> loopState,
      transport |-> transport, inbox |-> inbox, calls |-> calls,
      message_calls |-> message_calls,
      property_callbacks |-> property_callbacks,
      exc |-> FALSE, closed |-> FALSE ]

Install(c) ==
    /\ ws' = c.ws
    /\ task' = c.task
    /\ connected' = c.connected
    /\ all_props_initialized' = c.all_props_initialized
    /\ connected_event' = c.connected_event
    /\ initialized_event' = c.initialized_event
    /\ auth_error' = c.auth_error
    /\ all_props' = c.all_props
    /\ amp' = c.amp
    /\ access_state' = c.access_state
    /\ cak' = c.cak
    /\ request_id' = c.request_id
    /\ sent' = c.sent
    /\ scheduled' = c.scheduled
    /\ device' = c.device
    /\ auth_hash_type' = c.auth_hash_type
    /\ hashed_password' = c.hashed_password
    /\ loopState' = c.loopState
    /\ transport' = c.transport
    /\ inbox' = c.inbox
    /\ calls' = c.calls
    /\ message_calls' = c.message_calls

Outcome(kind, msg) == [kind |-> kind, msg |-> msg]

Init ==
    /\ ws = 0
    /\ task = 0
    /\ connected = FALSE
    /\ all_props_initialized = FALSE
    /\ connected_event = FALSE
    /\ initialized_event = FALSE
    /\ auth_error = 0
    /\ all_props = [k \in Keys |-> 0]
    /\ amp = 0
    /\ access_state = 0
    /\ cak = 0
    /\ request_id = 0
    /\ sent = <<>>
    /\ scheduled = [waiting |-> 0, failed |-> FALSE]
    /\ device = [serial |-> "", device_type |-> "", secured |-> 0]
    /\ auth_hash_type = "pbkdf2"
    /\ hashed_password = NoSecret
    /\ property_callbacks = <<>>
    /\ message_callbacks = <<>>
    /\ loopState = [s \in Sessions |-> "none"]
    /\ transport = [s \in Sessions |-> "none"]
    /\ inbox = [s \in Sessions |-> <<>>]
    /\ calls = <<>>
    /\ message_calls = <<>>
    /\ lastFrame = NoFrame
    /\ fullSeen = FALSE
    /\ progress = 0
    /\ greeted = FALSE
    /\ watching_properties = <<>>
    /\ watchedHere = {}
    /\ quiet = FALSE
    /\ nextId = 0
    /\ pc = [p \in Callers |-> "idle"]
    /\ woken = [p \in Callers |-> FALSE]
    /\ op = [p \in Callers |-> "none"]
    /\ arg = [p \in Callers |-> NoArg]
    /\ elapsed = [p \in Callers |-> 0]
    /\ result = [p \in Callers |-> Outcome("none", 0)]

\* ---- listeners ------------------------------------------------------------

\* list.remove(callback): the first occurrence is removed.
Remove(seq, x) ==
    LET i == CHOOSE j \in 1..Len(seq) :
                 seq[j] = x /\ \A k \in 1..(j - 1) : seq[k] # x
    IN  SubSeq(seq, 1, i - 1) \o SubSeq(seq, i + 1, Len(seq))

\* for cb in callbacks: cb(...): the list iterator goes by position over
\* the list as it is at each step, so a listener that removes itself moves
\* the listeners behind it one position down under the iterator.  The loop
\* ends at the first listener that raises.
RECURSIVE Dispatch(_, _, _)
Dispatch(cbs, i, called) ==
    IF i > Len(cbs) THEN [cbs |-> cbs, called |-> called, exc |-> FALSE]
    ELSE IF cbs[i] \in Raising
    THEN [cbs |-> cbs, called |-> Append(called, cbs[i]), exc |-> TRUE]
    ELSE IF cbs[i] \in Unsubscribing
    THEN Dispatch(Remove(cbs, cbs[i]), i + 1, Append(called, cbs[i]))
    ELSE Dispatch(cbs, i + 1, Append(called, cbs[i]))

\* The listeners that get called, in the order of the calls, up to and
\* including the first one that raises.
Called(cbs) == Dispatch(cbs, 1, <<>>).called

\* One of the listeners that get called raises; nothing catches it.
Raises(cbs) == Dispatch(cbs, 1, <<>>).exc

\* The list after the loop.
Remaining(cbs) == Dispatch(cbs, 1, <<>>).cbs

Raise(c) == [c EXCEPT !.exc = TRUE]

\* ---- property store -------------------------------------------------------

\* asyncio.ensure_future(cb(name, value)) for the coroutine functions among
\* the listeners that get called: the tasks created.
Ensured(cbs) ==
    Cardinality({i \in 1..Len(Called(cbs)) : Called(cbs)[i] \in Coroutines})

\* _update_property: store the value, refresh the named field of the key,
\* then call the registered listeners with (name, value); the coroutine of
\* an asynchronous listener becomes a task.
UpdateProperty(c, name, value) ==
    [c EXCEPT
        !.all_props = [@ EXCEPT ![name] = value],
        !.amp = IF name = "amp" THEN value ELSE @,
        !.access_state = IF name \in {"acs", "ast"} THEN value ELSE @,
        !.cak = IF name = "cak" THEN value ELSE @,
        !.calls = @ \o [i \in 1..Len(Called(c.property_callbacks)) |->
                          [cb |-> Called(c.property_callbacks)[i],
                           key |-> name, value |-> value]],
        !.scheduled.waiting = @ + Ensured(c.property_callbacks),
        !.property_callbacks = Remaining(@),
        !.exc = Raises(c.property_callbacks)]

\* for key, value in props.items(): self._update_property(key, value)
RECURSIVE ApplyStatus(_, _)
ApplyStatus(c, status) ==
    IF status = <<>> \/ c.exc THEN c
    ELSE ApplyStatus(UpdateProperty(c, Head(status).k, Head(status).v), Tail(status))

\* ---- sending ----------------------------------------------------------------

\* A set-value frame; ws is the transport it was handed to.
Message(id, key, value) ==
    [ws |-> 0, type |-> "setValue", requestId |-> id, key |-> key,
     value |-> value]

\* The auth frame that answers a challenge.
AuthMessage(token3, hash) ==
    [ws |-> 0, type |-> "auth", token3 |-> token3, hash |-> hash]

\* sign_secured_message: the envelope holds the serialized message as data,
\* the request id with "sm" appended and the HMAC of the data under the
\* secret.
SignSecuredMessage(message, secret) ==
    [ws |-> 0, type |-> "securedMsg", data |-> message,
     requestId |-> << message.requestId, "sm" >>,
     hmac |-> [key |-> secret, data |-> message]]

\* What a command gives: the client afterwards and "ok" or the exception.
Sending(c, kind) == [c |-> c, kind |-> kind]

\* _send: ConnectionError without a transport; the send of a transport that
\* is closed raises ConnectionClosed.
Send(c, message) ==
    IF c.ws = 0 THEN Sending(c, "ConnectionError")
    ELSE IF c.transport[c.ws] # "open" THEN Sending(c, "ConnectionClosed")
    ELSE Sending([c EXCEPT !.sent = Append(@, [message EXCEPT !.ws = c.ws])],
                 "ok")

\* ---- frame handlers -------------------------------------------------------

OnAuthSuccess(c) ==
    [c EXCEPT !.connected = TRUE, !.connected_event = TRUE]

OnAuthError(c, f) ==
    [c EXCEPT !.auth_error = f.message, !.connected_event = TRUE]

SetInitialized(c) ==
    [c EXCEPT !.all_props_initialized = TRUE, !.initialized_event = TRUE]

OnFullStatus(c, f) ==
    LET c1 == ApplyStatus(c, f.status)
    IN  IF c1.exc THEN c1
        ELSE IF f.partial # "absent" /\ ~c1.all_props_initialized
        THEN IF f.partial = "false" THEN SetInitialized(c1) ELSE c1
        ELSE SetInitialized(c1)

OnDeltaStatus(c, f) ==
    LET c1 == IF ~c.all_props_initialized THEN SetInitialized(c) ELSE c
    IN  ApplyStatus(c1, f.status)

OnResponseUnnotified(c, f) ==
    IF f.success THEN [ApplyStatus(c, f.status) EXCEPT !.calls = c.calls]
    ELSE IF f.requestId = 0 THEN Raise(c)
    ELSE c

\* _on_response: a successful response is merged key by key; a failed one
\* is logged with msg.requestId, which raises AttributeError when the frame
\* has no request id.
OnResponse(c, f) ==
    IF f.success THEN ApplyStatus(c, f.status)
    ELSE IF f.requestId = 0 THEN Raise(c)
    ELSE c

\* _on_hello: the serial is read first (AttributeError when the greeting has
\* none); device_type is "" when the greeting has no devicetype; secured is
\* written only when the greeting has it.
OnHello(c, f) ==
    IF f.serial = <<>> THEN Raise(c)
    ELSE [c EXCEPT !.device.serial = f.serial[1],
                   !.device.device_type = f.devicetype,
                   !.device.secured = IF f.secured = <<>> THEN @
                                      ELSE f.secured[1]]

\* The serials of digits only.
DigitSerials == {"12345678"}

\* _update_hashed_password: nothing without a serial; the bcrypt salt is made
\* of a serial of digits only (ValueError otherwise).
UpdateHashedPassword(c) ==
    IF c.device.serial = "" THEN c
    ELSE IF c.auth_hash_type = "bcrypt" /\ c.device.serial \notin DigitSerials
    THEN Raise(c)
    ELSE [c EXCEPT !.hashed_password = Secret(c.device.serial, c.auth_hash_type)]

\* compute_auth_response
ComputeAuthResponse(token1, token2, token3, secret) ==
    [token1 |-> token1, token2 |-> token2, token3 |-> token3, secret |-> secret]

\* generate_token: a token no earlier call returned, here the number of the
\* call among those whose auth frame was handed over.
GenerateToken(c) ==
    1 + Cardinality({i \in 1..Len(c.sent) : c.sent[i].type = "auth"})

\* _on_auth_required: the algorithm is the indicator of the challenge when
\* it has one (ValueError when AuthHashType does not know it), bcrypt for a
\* flex device, and stays what it was otherwise; then the secret is derived
\* and the auth frame is sent plain.
OnAuthRequired(c, f) ==
    LET c1 == IF f.hash # "absent"
              THEN IF f.hash \in {"pbkdf2", "bcrypt"}
                   THEN [c EXCEPT !.auth_hash_type = f.hash]
                   ELSE Raise(c)
              ELSE IF c.device.device_type = "wattpilot_flex"
              THEN [c EXCEPT !.auth_hash_type = "bcrypt"]
              ELSE c
        c2 == IF c1.exc THEN c1 ELSE UpdateHashedPassword(c1)
        token3 == GenerateToken(c2)
        r == Send(c2, AuthMessage(token3,
                                  ComputeAuthResponse(f.token1, f.token2, token3,
                                                      c2.hashed_password)))
    IN  IF c2.exc THEN c2
        ELSE IF r.kind = "ok" THEN r.c
        ELSE IF r.kind = "ConnectionClosed" THEN [c2 EXCEPT !.closed = TRUE]
        ELSE Raise(c2)

\* for cb in self._message_callbacks: cb(msg)
FireMessage(c) ==
    [c EXCEPT !.message_calls = Called(message_callbacks),
              !.exc = Raises(message_callbacks)]

\* _handle_message for a frame that json.loads accepts: call the raw-message
\* listeners, then dispatch on the type.
HandleMessage(c, f) ==
    LET c1 == FireMessage(c)
    IN  IF c1.exc THEN c1
        ELSE CASE f.type = "hello" -> OnHello(c1, f)
               [] f.type = "authRequired" -> OnAuthRequired(c1, f)
               [] f.type = "authSuccess" -> OnAuthSuccess(c1)
               [] f.type = "authError" -> OnAuthError(c1, f)
               [] f.type = "fullStatus" -> OnFullStatus(c1, f)
               [] f.type = "deltaStatus" -> OnDeltaStatus(c1, f)
               [] f.type = "response" -> OnResponse(c1, f)
               [] f.type \in {"clearInverters", "updateInverter"} -> c1
               [] OTHER -> c1

\* A finally block that marks the client not-connected and leaves the
\* connected-event set.
LoopFinallyKeepsEvent(c) ==
    [c EXCEPT !.connected = FALSE]

\* The finally block of _message_loop.
LoopFinally(c) ==
    [c EXCEPT !.connected = FALSE, !.connected_event = FALSE]

\* ---- disconnect -----------------------------------------------------------

\* await self._message_loop_task re-raises the exception the task ended with.
DisconnectRaises(c) ==
    c.task # 0 /\ c.loopState[c.task] = "failed"

\* A disconnect() that also forgets that the properties were initialized.
DisconnectForgets(c) ==
    IF DisconnectRaises(c) THEN c
    ELSE
        LET c1 == IF c.task # 0 /\ c.loopState[c.task] = "running"
                  THEN [LoopFinally(c) EXCEPT !.loopState[c.task] = "cancelled",
                                              !.task = 0]
                  ELSE [c EXCEPT !.task = 0]
            c2 == IF c1.ws # 0
                  THEN [c1 EXCEPT !.transport[c1.ws] = "closed",
                                  !.inbox[c1.ws] = <<>>,
                                  !.ws = 0]
                  ELSE c1
        IN  [c2 EXCEPT !.connected = FALSE,
                       !.connected_event = FALSE,
                       !.initialized_event = FALSE,
                       !.all_props_initialized = FALSE]

\* disconnect(): cancel the read loop and await it, close the transport,
\* clear the flags.  A cancelled read loop runs its finally block.
Disconnect(c) ==
    IF DisconnectRaises(c) THEN c
    ELSE
        LET c1 == IF c.task # 0 /\ c.loopState[c.task] = "running"
                  THEN [LoopFinally(c) EXCEPT !.loopState[c.task] = "cancelled",
                                              !.task = 0]
                  ELSE [c EXCEPT !.task = 0]
            c2 == IF c1.ws # 0
                  THEN [c1 EXCEPT !.transport[c1.ws] = "closed",
                                  !.inbox[c1.ws] = <<>>,
                                  !.ws = 0]
                  ELSE c1
        IN  [c2 EXCEPT !.connected = FALSE,
                       !.connected_event = FALSE,
                       !.initialized_event = FALSE]

\* ---- connect --------------------------------------------------------------
\* Each step of connect() gives the client state it leaves, the place the
\* caller is at afterwards and, once the call has ended, how it ended.

Step(c, p, r) == [c |-> c, pc |-> p, result |-> r]

Pending == Outcome("pending", 0)

\* await self.disconnect(); raise err
RaiseAfterDisconnect(c, err) ==
    Step(Disconnect(c), "idle",
         IF DisconnectRaises(c) THEN Outcome("LoopError", 0) ELSE err)

\* The wait for the initialized-event (lines 171-178).
WaitInitialized(c) ==
    IF c.initialized_event THEN Step(c, "idle", Outcome("ok", 0))
    ELSE Step(c, "wait_init", Pending)

\* After the connected-event (lines 166-169).
AfterConnected(c) ==
    IF c.auth_error # 0
    THEN RaiseAfterDisconnect(c, Outcome("AuthenticationError", c.auth_error))
    ELSE WaitInitialized(c)

\* The wait for the connected-event (lines 159-164).
WaitConnected(c) ==
    IF c.connected_event THEN AfterConnected(c)
    ELSE Step(c, "wait_connected", Pending)

\* The fast path of an already connected client (lines 142-150).
FastPath(c) ==
    IF ~c.all_props_initialized /\ ~c.initialized_event
    THEN Step(c, "fast_wait", Pending)
    ELSE Step(c, "idle", Outcome("ok", 0))

\* connect() up to its first await (lines 142-156).
ConnectBegin(c) ==
    IF c.connected
    THEN FastPath(c)
    ELSE Step([c EXCEPT !.connected_event = FALSE,
                        !.initialized_event = FALSE,
                        !.auth_error = 0],
              "opening", Pending)

\* self._ws = await websockets.connect(...); create_task(self._message_loop())
Opened(c, id) ==
    WaitConnected([c EXCEPT !.ws = id, !.task = id,
                            !.loopState[id] = "running",
                            !.transport[id] = "open"])

\* The caller resumes after the event it waited for was set.
Resumed(c, at) ==
    IF at = "wait_connected" THEN AfterConnected(c)
    ELSE Step(c, "idle", Outcome("ok", 0))

\* The wait times out (asyncio.wait_for raises TimeoutError).
TimedOut(c) ==
    RaiseAfterDisconnect(c, Outcome("ConnectionError", 0))

\* Caller p takes the step s of the call it is in and leaves its local
\* variable elapsed at e.
TakeAt(p, s, e) ==
    /\ Install(s.c)
    /\ pc' = [pc EXCEPT ![p] = s.pc]
    /\ result' = [result EXCEPT ![p] = s.result]
    /\ woken' = [woken EXCEPT ![p] = FALSE]
    /\ elapsed' = [elapsed EXCEPT ![p] = e]

\* with contextlib.suppress(Exception): await self.connect(); return
\* Inside install_firmware_update a connect() that returns normally ends the
\* call, and one that raises is followed by the sleep before the next attempt.
Continue(p, s) ==
    IF /\ op[p] = "install_firmware_update"
       /\ pc[p] \in {"opening", "wait_connected", "wait_init", "fast_wait"}
       /\ s.pc = "idle"
       /\ s.result.kind # "ok"
    THEN Step(s.c, "fw_retry_sleep", Pending)
    ELSE s

\* Caller p takes the step s of the call it is in.
Take(p, s) == TakeAt(p, Continue(p, s), elapsed[p])

\* Caller p calls connect().
ConnectCall(p) ==
    /\ pc[p] = "idle"
    /\ op' = [op EXCEPT ![p] = "connect"]
    /\ arg' = [arg EXCEPT ![p] = NoArg]
    /\ Take(p, Step(Self, "connect", Pending))
    /\ UNCHANGED << listenerVars, lastFrame, fullSeen, progress, greeted, shellVars, quiet, nextId >>

ConnectEnter(p) ==
    /\ pc[p] = "connect"
    /\ Take(p, ConnectBegin(Self))
    /\ UNCHANGED << listenerVars, lastFrame, fullSeen, progress, greeted, shellVars, quiet, nextId, op, arg >>

\* websockets.connect returns a transport; the read loop is started on it.
ConnectOpen(p) ==
    /\ pc[p] = "opening"
    /\ nextId < MaxSessions
    /\ nextId' = nextId + 1
    /\ Take(p, Opened(Self, nextId + 1))
    /\ fullSeen' = FALSE
    /\ quiet' = FALSE
    /\ progress' = 0
    /\ greeted' = FALSE
    /\ UNCHANGED << listenerVars, shellVars, lastFrame, op, arg >>

\* websockets.connect raises: the device cannot be reached.
ConnectRefused(p) ==
    /\ pc[p] = "opening"
    /\ Take(p, Step(Self, "idle", Outcome("OSError", 0)))
    /\ UNCHANGED << listenerVars, lastFrame, fullSeen, progress, greeted, shellVars, quiet, nextId, op, arg >>

\* The event the caller waits for was set: the caller resumes.
ConnectResume(p) ==
    /\ pc[p] \in {"wait_connected", "wait_init", "fast_wait"}
    /\ woken[p]
    /\ Take(p, Resumed(Self, pc[p]))
    /\ UNCHANGED << listenerVars, lastFrame, fullSeen, progress, greeted, shellVars, quiet, nextId, op, arg >>

\* The event was not set within connect_timeout / init_timeout.
ConnectTimeout(p) ==
    /\ pc[p] \in {"wait_connected", "wait_init", "fast_wait"}
    /\ ~woken[p]
    /\ Take(p, TimedOut(Self))
    /\ UNCHANGED << listenerVars, lastFrame, fullSeen, progress, greeted, shellVars, quiet, nextId, op, arg >>

\* Caller p calls disconnect().
DisconnectCall(p) ==
    /\ pc[p] = "idle"
    /\ op' = [op EXCEPT ![p] = "disconnect"]
    /\ arg' = [arg EXCEPT ![p] = NoArg]
    /\ Take(p, Step(Self, "disconnect", Pending))
    /\ UNCHANGED << listenerVars, lastFrame, fullSeen, progress, greeted, shellVars, quiet, nextId >>

\* disconnect() runs and returns, or raises what the read loop ended with.
DisconnectRun(p) ==
    /\ pc[p] = "disconnect"
    /\ Take(p, Step(Disconnect(Self), "idle",
                    IF DisconnectRaises(Self) THEN Outcome("LoopError", 0)
                    ELSE Outcome("ok", 0)))
    /\ quiet' = ~DisconnectRaises(Self)
    /\ UNCHANGED << listenerVars, lastFrame, fullSeen, progress, greeted, shellVars, nextId, op, arg >>

\* ---- registering listeners ------------------------------------------------

Registered(cbs) == {cbs[i] : i \in 1..Len(cbs)}

\* on_property_change(callback)
Subscribe(cb) ==
    /\ cb \notin Registered(property_callbacks)
    /\ property_callbacks' = Append(property_callbacks, cb)
    /\ UNCHANGED << clientVars, message_callbacks, lastFrame, fullSeen, progress, greeted, shellVars, quiet,
                    nextId, callerVars >>

\* The unsubscribe function on_property_change returned is called.
Unsubscribe(cb) ==
    /\ cb \in Registered(property_callbacks)
    /\ property_callbacks' = Remove(property_callbacks, cb)
    /\ UNCHANGED << clientVars, message_callbacks, lastFrame, fullSeen, progress, greeted, shellVars, quiet,
                    nextId, callerVars >>

\* on_message(callback)
SubscribeMessage(cb) ==
    /\ cb \notin Registered(message_callbacks)
    /\ message_callbacks' = Append(message_callbacks, cb)
    /\ UNCHANGED << clientVars, property_callbacks, lastFrame, fullSeen, progress, greeted, shellVars, quiet,
                    nextId, callerVars >>

\* The unsubscribe function on_message returned is called.
UnsubscribeMessage(cb) ==
    /\ cb \in Registered(message_callbacks)
    /\ message_callbacks' = Remove(message_callbacks, cb)
    /\ UNCHANGED << clientVars, property_callbacks, lastFrame, fullSeen, progress, greeted, shellVars, quiet,
                    nextId, callerVars >>

\* Listeners that return, for the runs in which one can be registered more
\* than once.
PlainCallbacks == {"cb1", "cb2"}

\* on_property_change(callback): list.append, also when the callback is in
\* the list already.
OnPropertyChange(cb) ==
    /\ Len(property_callbacks) < MaxListeners
    /\ property_callbacks' = Append(property_callbacks, cb)
    /\ UNCHANGED << clientVars, message_callbacks, lastFrame, fullSeen, progress, greeted, shellVars, quiet,
                    nextId, callerVars >>

\* on_message(callback): list.append, also when the callback is in the list
\* already.
OnMessage(cb) ==
    /\ Len(message_callbacks) < MaxListeners
    /\ message_callbacks' = Append(message_callbacks, cb)
    /\ UNCHANGED << clientVars, property_callbacks, lastFrame, fullSeen, progress, greeted, shellVars, quiet,
                    nextId, callerVars >>

\* ---- the device and the read loop ------------------------------------------

\* The device sends a frame: the transport queues it for the read loop.
DeviceSend(s, f, limit) ==
    /\ transport[s] = "open"
    /\ loopState[s] = "running"
    /\ Len(inbox[s]) < limit
    /\ inbox' = [inbox EXCEPT ![s] = Append(@, f)]
    /\ UNCHANGED << ws, task, connected, all_props_initialized, connected_event,
                    initialized_event, auth_error, all_props, amp, access_state,
                    cak, request_id, sent, scheduled,
                    device, auth_hash_type, hashed_password,
                    loopState, transport, calls, message_calls, listenerVars,
                    lastFrame, fullSeen, progress, greeted, shellVars, quiet, nextId, callerVars >>

\* The remote side closes the transport.
RemoteClose(s) ==
    /\ transport[s] = "open"
    /\ loopState[s] = "running"
    /\ transport' = [transport EXCEPT ![s] = "remote_closed"]
    /\ UNCHANGED << ws, task, connected, all_props_initialized, connected_event,
                    initialized_event, auth_error, all_props, amp, access_state,
                    cak, request_id, sent, scheduled,
                    device, auth_hash_type, hashed_password,
                    loopState, inbox, calls, message_calls, listenerVars,
                    lastFrame, fullSeen, progress, greeted, shellVars, quiet, nextId, callerVars >>

\* A caller suspended in Event.wait() is scheduled when the event gets set.
Wakes(c, p) ==
    \/ pc[p] = "wait_connected" /\ ~connected_event /\ c.connected_event
    \/ pc[p] \in {"wait_init", "fast_wait"} /\ ~initialized_event /\ c.initialized_event

\* async for raw in self._ws: the frame received first is taken first.
NextFrame(q) == Head(q)

\* The read loop takes a frame from transport s and handles it: json.loads
\* raises on a malformed frame.  An exception that leaves _handle_message
\* ends the task with that exception, after the finally block; the
\* transport's ConnectionClosed is caught and ends the task normally.
LoopTakes(c, s) ==
    LET f == NextFrame(c.inbox[s])
        c0 == [c EXCEPT !.inbox[s] = Tail(@), !.calls = <<>>,
                        !.message_calls = <<>>]
        c1 == IF f.type = "malformed" THEN Raise(c0) ELSE HandleMessage(c0, f)
    IN  IF c1.exc
        THEN [LoopFinally(c1) EXCEPT !.loopState[s] = "failed", !.inbox[s] = <<>>]
        ELSE IF c1.closed
        THEN [LoopFinally(c1) EXCEPT !.loopState[s] = "ended", !.inbox[s] = <<>>]
        ELSE c1

\* How far a session is once frame f was received: authenticated (1) after
\* authSuccess, and supplied with the state (2) after a fullStatus that is
\* not partial or a deltaStatus received when authenticated; out of order
\* (3) when a state frame came before authSuccess.
Progress(n, f) ==
    IF f.type = "authSuccess" /\ n = 0 THEN 1
    ELSE IF f.type \in {"fullStatus", "deltaStatus"} /\ n = 0 THEN 3
    ELSE IF /\ n = 1
            /\ \/ f.type = "fullStatus" /\ f.partial # "true"
               \/ f.type = "deltaStatus"
    THEN 2
    ELSE n

\* One iteration of the read loop.
HandleFrame(s) ==
    /\ loopState[s] = "running"
    /\ inbox[s] # <<>>
    /\ LET c1 == LoopTakes(Self, s)
       IN  /\ Install(c1)
           /\ property_callbacks' = c1.property_callbacks
           /\ woken' = [p \in Callers |-> woken[p] \/ Wakes(c1, p)]
    /\ lastFrame' = NextFrame(inbox[s])
    /\ fullSeen' = (fullSeen \/ NextFrame(inbox[s]).type = "fullStatus")
    /\ progress' = IF s = ws THEN Progress(progress, NextFrame(inbox[s]))
                   ELSE progress
    /\ greeted' = (greeted \/ (s = ws /\ NextFrame(inbox[s]).type = "hello"))
    /\ UNCHANGED << message_callbacks, shellVars, quiet, nextId, pc, op, arg,
                    elapsed, result >>

\* The transport is closed and drained: the iteration ends (ConnectionClosed)
\* and the finally block runs.  The loop was suspended waiting for a frame,
\* so a caller that was woken before runs first.
LoopEnd(s) ==
    /\ loopState[s] = "running"
    /\ transport[s] = "remote_closed"
    /\ inbox[s] = <<>>
    /\ \A p \in Callers : ~woken[p]
    /\ Install([LoopFinally(Self) EXCEPT !.loopState[s] = "ended"])
    /\ UNCHANGED << listenerVars, lastFrame, fullSeen, progress, greeted, shellVars, quiet, nextId, callerVars >>

\* The event loop runs the task of an asynchronous listener: the listener
\* fails, the task keeps the exception and its done callback retrieves it.
ListenerTaskRun ==
    /\ scheduled.waiting > 0
    /\ scheduled' = [waiting |-> scheduled.waiting - 1, failed |-> TRUE]
    /\ UNCHANGED << ws, task, connected, all_props_initialized, connected_event,
                    initialized_event, auth_error, all_props, amp, access_state,
                    cak, request_id, sent,
                    device, auth_hash_type, hashed_password,
                    loopState, transport, inbox, calls, message_calls,
                    listenerVars, lastFrame, fullSeen, progress, greeted, shellVars, quiet, nextId,
                    callerVars >>

\* The listener tasks the handling of the next frame of session s can create
\* do not take the waiting tasks beyond MaxScheduled.
RoomToSchedule(s) ==
    IF inbox[s] = <<>> THEN TRUE
    ELSE scheduled.waiting
           + Len(NextFrame(inbox[s]).status)
               * Cardinality(Registered(property_callbacks) \cap Coroutines)
         <= MaxScheduled

\* ---- commands -------------------------------------------------------------

\* The schema type (jsonType) the API definition gives a property; "" for a
\* property it does not define.
JsonType(name) ==
    CASE name = "cae" -> "boolean"
      [] name = "amp" -> "integer"
      [] name = "fst" -> "float"
      [] OTHER -> ""

\* str.lower()
Lower(text) == IF text = "YES" THEN "yes" ELSE text

\* The texts int() accepts and the texts float() accepts, of those in use.
IntText == {"16", "1", "0"}

FloatText == IntText \cup {"16.7", "inf", "nan"}

\* What a coercion gives: the coerced value, or the exception it raises.
Coerced(value) == [kind |-> "ok", value |-> value]

CoerceError(kind) == [kind |-> kind, value |-> Val("NoneType", "None")]

\* int(x) of the float x with the given text: the fraction is cut off;
\* infinity raises OverflowError and not-a-number raises ValueError.
IntOfFloat(text) ==
    CASE text = "inf" -> CoerceError("OverflowError")
      [] text = "nan" -> CoerceError("ValueError")
      [] text = "16.7" -> Coerced(Val("int", "16"))
      [] OTHER -> Coerced(Val("int", text))

\* bool(x) of a number
BoolOf(text) == IF text = "0" THEN "False" ELSE "True"

\* _coerce_to_json_type
CoerceToJsonType(value, json_type) ==
    CASE json_type = "boolean" ->
           CASE value.t = "bool" -> Coerced(value)
             [] value.t = "str" ->
                  IF Lower(value.v) \in {"true", "1", "yes"}
                  THEN Coerced(Val("bool", "True"))
                  ELSE IF Lower(value.v) \in {"false", "0", "no"}
                  THEN Coerced(Val("bool", "False"))
                  ELSE CoerceError("PropertyError")
             [] value.t \in {"int", "float"} ->
                  Coerced(Val("bool", BoolOf(value.v)))
             [] OTHER -> CoerceError("PropertyError")
      [] json_type = "integer" ->
           CASE value.t = "bool" ->
                  Coerced(Val("int", IF value.v = "True" THEN "1" ELSE "0"))
             [] value.t = "int" -> Coerced(value)
             [] value.t = "float" -> IntOfFloat(value.v)
             [] value.t = "str" ->
                  \* int(value), then int(float(value)); ValueError is
                  \* suppressed in both.
                  IF value.v \in IntText THEN Coerced(Val("int", value.v))
                  ELSE IF /\ value.v \in FloatText
                          /\ IntOfFloat(value.v).kind # "ValueError"
                  THEN IntOfFloat(value.v)
                  ELSE CoerceError("PropertyError")
             [] OTHER -> CoerceError("PropertyError")
      [] json_type = "float" ->
           CASE value.t = "bool" ->
                  Coerced(Val("float", IF value.v = "True" THEN "1" ELSE "0"))
             [] value.t \in {"int", "float"} -> Coerced(Val("float", value.v))
             [] value.t = "str" ->
                  IF value.v \in FloatText THEN Coerced(Val("float", value.v))
                  ELSE CoerceError("PropertyError")
             [] OTHER -> CoerceError("PropertyError")
      [] json_type = "string" -> Coerced(Val("str", value.v))
      [] OTHER -> Coerced(value)

\* _coerce_value
CoerceValue(name, value) ==
    IF value.t = "SimpleNamespace" THEN Coerced(Val("dict", value.v))
    ELSE IF JsonType(name) = "" THEN Coerced(value)
    ELSE CoerceToJsonType(value, JsonType(name))

\* A set_property that takes the counter as it is.
KeepRequestId(c) == c

\* self._request_id += 1
AssignRequestId(c) ==
    [c EXCEPT !.request_id = @ + 1]

SecureFromZero(c) == c.device.secured >= 0

\* secure = self._device.secured is not None and self._device.secured > 0
Secure(c) == c.device.secured > 0

\* set_property: the coerced value is sent under the next request id, in the
\* envelope of sign_secured_message when the device is secured.
SetProperty(c, name, value) ==
    LET v == CoerceValue(name, value)
        c1 == AssignRequestId(c)
        message == Message(c1.request_id, name, v.value)
    IN  IF v.kind # "ok" THEN Sending(c, v.kind)
        ELSE Send(c1, IF Secure(c1)
                      THEN SignSecuredMessage(message, c1.hashed_password)
                      ELSE message)

\* The calls of set_property that are made: recognised and unrecognised
\* texts, numbers with and without an integer value, a list, and a property
\* the API definition does not have.
CommandInputs ==
    { Arg("cae", Val("bool", "True"), 0),
      Arg("cae", Val("str", "YES"), 0),
      Arg("cae", Val("str", "maybe"), 0),
      Arg("cae", Val("list", "[1]"), 0),
      Arg("amp", Val("str", "16.7"), 0),
      Arg("amp", Val("str", "abc"), 0),
      Arg("amp", Val("str", "inf"), 0),
      Arg("amp", Val("float", "nan"), 0),
      Arg("amp", Val("list", "[1]"), 0),
      Arg("fst", Val("str", "abc"), 0),
      Arg("fst", Val("int", "16"), 0),
      Arg("xyz", Val("str", "abc"), 0) }

\* Caller p calls set_property(name, value).
SetPropertyCall(p, a) ==
    /\ pc[p] = "idle"
    /\ request_id < MaxRequests
    /\ op' = [op EXCEPT ![p] = "set_property"]
    /\ arg' = [arg EXCEPT ![p] = a]
    /\ Take(p, Step(Self, "set_property", Pending))
    /\ UNCHANGED << listenerVars, lastFrame, fullSeen, progress, greeted, shellVars, quiet, nextId >>

\* set_property runs: it returns, or raises what the coercion or the send
\* raised.
SetPropertyRun(p) ==
    /\ pc[p] = "set_property"
    /\ LET r == SetProperty(Self, arg[p].name, arg[p].value)
       IN  Take(p, Step(r.c, "idle", Outcome(r.kind, 0)))
    /\ UNCHANGED << listenerVars, lastFrame, fullSeen, progress, greeted, shellVars, quiet, nextId, op, arg >>

\* A call of set_property that sends a frame.
PlainInputs ==
    { Arg("cae", Val("bool", "True"), 0) }

\* ---- set_next_trip ---------------------------------------------------------

\* A datetime.time.
Time(hour, minute, second) == [hour |-> hour, minute |-> minute, second |-> second]

\* The departure times passed, as datetime.time and as datetime.datetime.
Departures ==
    { Val("time", Time(0, 0, 0)),
      Val("time", Time(8, 0, 0)),
      Val("datetime", Time(7, 30, 0)),
      Val("time", Time(23, 59, 59)) }

\* Values of the key tds beside None (0), 1 and 2: the number 0, the number
\* 1.5 and a text that is no number.
TdsZero == 3

TdsFraction == 4

TdsText == 5

\* int(tds)
IntOfTds(tds) ==
    CASE tds \in {1, 2} -> Coerced(tds)
      [] tds = TdsZero -> Coerced(0)
      [] tds = TdsFraction -> Coerced(1)
      [] OTHER -> CoerceError("ValueError")

\* set_next_trip: seconds since midnight, an hour more when int(tds) is 1 or
\* 2, written to ftt with set_property.
SetNextTrip(c, departure_time) ==
    LET t == departure_time.v
        timestamp == t.hour * 3600 + t.minute * 60 + t.second
        tds == c.all_props["tds"]
        i == IF tds = 0 THEN Coerced(0) ELSE IntOfTds(tds)
    IN  IF i.kind # "ok" THEN Sending(c, i.kind)
        ELSE SetProperty(c, "ftt",
                         Val("int", IF i.value \in {1, 2} THEN timestamp + 3600
                                    ELSE timestamp))

\* Caller p calls set_next_trip(departure_time).
SetNextTripCall(p, departure_time) ==
    /\ pc[p] = "idle"
    /\ request_id < MaxRequests
    /\ op' = [op EXCEPT ![p] = "set_next_trip"]
    /\ arg' = [arg EXCEPT ![p] = Arg("ftt", departure_time, 0)]
    /\ Take(p, Step(Self, "set_next_trip", Pending))
    /\ UNCHANGED << listenerVars, lastFrame, fullSeen, progress, greeted, shellVars, quiet, nextId >>

\* set_next_trip runs: it has no await before the send.
SetNextTripRun(p) ==
    /\ pc[p] = "set_next_trip"
    /\ LET r == SetNextTrip(Self, arg[p].value)
       IN  Take(p, Step(r.c, "idle", Outcome(r.kind, 0)))
    /\ UNCHANGED << listenerVars, lastFrame, fullSeen, progress, greeted, shellVars, quiet, nextId, op, arg >>

\* State frames that carry the daylight-saving indicator.
TripFrames ==
    { AuthSuccess, FullStatus }
    \cup { Frame("deltaStatus", "absent", << KV("tds", v) >>, TRUE, 0, 0) :
             v \in {1, 2, TdsZero, TdsFraction, TdsText} }

\* ---- MQTT bridge -----------------------------------------------------------

\* An MQTT message; the topic is the sequence of its levels.
MqttMessage(topic, payload) == [topic |-> topic, payload |-> payload]

\* topic_property_set with the default templates, for property name.
SetTopic(name) == << "wattpilot", "properties", name, "set" >>

\* The messages that reach the bridge: set commands for a writable, a
\* read-only and an unknown property, a topic of another kind, and a topic
\* below a set topic.
MqttMessages ==
    { MqttMessage(SetTopic("amp"), "16"),
      MqttMessage(SetTopic("amp"), "abc"),
      MqttMessage(SetTopic("car"), "1"),
      MqttMessage(SetTopic("unknown"), "1"),
      MqttMessage(<< "other", "topic" >>, "1"),
      MqttMessage(SetTopic("amp") \o << "raw" >>, "16") }

\* re.match(set_pattern, topic) with set_pattern
\* "wattpilot/properties/([^/]+)/set": the pattern is matched at the start
\* of the topic, what follows it is not looked at.  The value is group 1, ""
\* without a match.
MatchSetPattern(topic) ==
    IF /\ Len(topic) >= 4
       /\ SubSeq(topic, 1, 2) = << "wattpilot", "properties" >>
       /\ topic[3] # ""
       /\ topic[4] = "set"
    THEN topic[3]
    ELSE ""

\* The properties of the bridge's API definition and pd.get("rw", "R").
BridgeProperties == {"amp", "car"}

Rw(name) == IF name = "amp" THEN "R/W" ELSE "R"

\* decode_property of an integer property without a value map: int(text).
DecodeProperty(text) ==
    IF text \in IntText THEN Coerced(Val("int", text))
    ELSE CoerceError("ValueError")

\* The listen loop hands message m to _on_mqtt_message, run by task p.
OnMqttMessage(p, m) ==
    /\ pc[p] = "idle"
    /\ request_id < MaxRequests
    /\ op' = [op EXCEPT ![p] = "on_mqtt_message"]
    /\ arg' = [arg EXCEPT ![p] = [name |-> "", value |-> Val("bytes", m.payload),
                                  timeout |-> 0, topic |-> m.topic]]
    /\ Take(p, Step(Self, "on_mqtt_message", Pending))
    /\ UNCHANGED << listenerVars, lastFrame, fullSeen, progress, greeted, shellVars, quiet, nextId >>

\* _on_mqtt_message up to its await: it returns for a topic without a match,
\* an unknown property and a read-only one, and calls set_property with the
\* decoded payload otherwise.
OnMqttMessageRun(p) ==
    /\ pc[p] = "on_mqtt_message"
    /\ LET name == MatchSetPattern(arg[p].topic)
           v == DecodeProperty(arg[p].value.v)
       IN  IF name = "" \/ name \notin BridgeProperties \/ Rw(name) = "R"
           THEN /\ Take(p, Step(Self, "idle", Outcome("ok", 0)))
                /\ arg' = arg
           ELSE IF v.kind # "ok"
           THEN /\ Take(p, Step(Self, "idle", Outcome(v.kind, 0)))
                /\ arg' = arg
           ELSE /\ Take(p, Step(Self, "set_property", Pending))
                /\ arg' = [arg EXCEPT ![p].name = name, ![p].value = v.value]
    /\ UNCHANGED << listenerVars, lastFrame, fullSeen, progress, greeted, shellVars, quiet, nextId, op >>

\* ---- polling calls ---------------------------------------------------------

\* The timeout of a polling call, in whole seconds.
Timeouts == 0..MaxTimeout

\* The empty string as the value of the key cak (the other values of cak are
\* 0 for None and 2 for an API key).
CakEmpty == 1

\* The loop of enable_cloud_api with elapsed at e, up to its next sleep:
\* the named field is looked at while elapsed < timeout.
CloudPoll(c, e, timeout) ==
    IF e < timeout
    THEN IF c.cak # 0 /\ c.cak # CakEmpty
         THEN Step(c, "idle", Outcome("CloudInfo", c.cak))
         ELSE Step(c, "cloud_sleep", Pending)
    ELSE Step(c, "idle", Outcome("ConnectionError", 0))

\* Caller p calls enable_cloud_api(timeout=t).
EnableCloudCall(p, t) ==
    /\ pc[p] = "idle"
    /\ request_id < MaxRequests
    /\ op' = [op EXCEPT ![p] = "enable_cloud_api"]
    /\ arg' = [arg EXCEPT ![p] = Arg("cae", Val("bool", "True"), t)]
    /\ Take(p, Step(Self, "cloud_send", Pending))
    /\ UNCHANGED << listenerVars, lastFrame, fullSeen, progress, greeted, shellVars, quiet, nextId >>

\* await self.set_property("cae", True), then the loop up to its first sleep.
EnableCloudSend(p) ==
    /\ pc[p] = "cloud_send"
    /\ LET r == SetProperty(Self, arg[p].name, arg[p].value)
       IN  IF r.kind # "ok"
           THEN TakeAt(p, Step(r.c, "idle", Outcome(r.kind, 0)), 0)
           ELSE TakeAt(p, CloudPoll(r.c, 0, arg[p].timeout), 0)
    /\ UNCHANGED << listenerVars, lastFrame, fullSeen, progress, greeted, shellVars, quiet, nextId, op, arg >>

\* asyncio.sleep(1) returns: elapsed += 1 and the loop goes on.
EnableCloudWake(p) ==
    /\ pc[p] = "cloud_sleep"
    /\ TakeAt(p, CloudPoll(Self, elapsed[p] + 1, arg[p].timeout), elapsed[p] + 1)
    /\ UNCHANGED << listenerVars, lastFrame, fullSeen, progress, greeted, shellVars, quiet, nextId, op, arg >>

\* The frames of a session in which the cloud API is enabled.
CloudFrames ==
    { AuthSuccess,
      FullStatus,
      Frame("deltaStatus", "absent", << KV("cak", CakEmpty) >>, TRUE, 0, 0),
      Frame("deltaStatus", "absent", << KV("cak", 2) >>, TRUE, 0, 0) }

\* The reconnect loop of install_firmware_update with elapsed at e, up to the
\* first await of connect().
FirmwareReconnect(c, e, timeout) ==
    IF e < timeout THEN ConnectBegin(c)
    ELSE Step(c, "idle", Outcome("ConnectionError", 0))

\* The loop that waits for the connection to drop, with elapsed at e, and
\* what follows it: ConnectionError if the client is still connected, else
\* disconnect() and the reconnect loop.
FirmwareWaitDrop(c, e, timeout) ==
    IF c.connected /\ e < timeout THEN Step(c, "fw_wait_drop", Pending)
    ELSE IF c.connected THEN Step(c, "idle", Outcome("ConnectionError", 0))
    ELSE IF DisconnectRaises(c) THEN Step(c, "idle", Outcome("LoopError", 0))
    ELSE FirmwareReconnect(Disconnect(c), e, timeout)

\* Caller p calls install_firmware_update(version, timeout=t) with a version.
InstallFirmwareCall(p, t) ==
    /\ pc[p] = "idle"
    /\ request_id < MaxRequests
    /\ op' = [op EXCEPT ![p] = "install_firmware_update"]
    /\ arg' = [arg EXCEPT ![p] = Arg("oct", Val("str", "1.0"), t)]
    /\ Take(p, Step(Self, "fw_send", Pending))
    /\ UNCHANGED << listenerVars, lastFrame, fullSeen, progress, greeted, shellVars, quiet, nextId >>

\* await self.set_property("oct", version), then the wait for the drop up to
\* its first sleep.
FirmwareSend(p) ==
    /\ pc[p] = "fw_send"
    /\ LET r == SetProperty(Self, arg[p].name, arg[p].value)
       IN  IF r.kind # "ok"
           THEN TakeAt(p, Step(r.c, "idle", Outcome(r.kind, 0)), 0)
           ELSE TakeAt(p, FirmwareWaitDrop(r.c, 0, arg[p].timeout), 0)
    /\ UNCHANGED << listenerVars, lastFrame, fullSeen, progress, greeted, shellVars, quiet, nextId, op, arg >>

\* asyncio.sleep(1) returns in the wait for the drop: elapsed += 1.
FirmwareWake(p) ==
    /\ pc[p] = "fw_wait_drop"
    /\ TakeAt(p, FirmwareWaitDrop(Self, elapsed[p] + 1, arg[p].timeout),
              elapsed[p] + 1)
    /\ UNCHANGED << listenerVars, lastFrame, fullSeen, progress, greeted, shellVars, quiet, nextId, op, arg >>

\* A sleep after a failed connect() that leaves elapsed as it is.
FirmwareRetryWakeStill(p) ==
    /\ pc[p] = "fw_retry_sleep"
    /\ TakeAt(p, FirmwareReconnect(Self, elapsed[p], arg[p].timeout),
              elapsed[p])
    /\ UNCHANGED << listenerVars, lastFrame, fullSeen, progress, greeted, shellVars, quiet, nextId, op, arg >>

\* asyncio.sleep(2) returns after a failed connect(): elapsed += 2.
FirmwareRetryWake(p) ==
    /\ pc[p] = "fw_retry_sleep"
    /\ TakeAt(p, FirmwareReconnect(Self, elapsed[p] + 2, arg[p].timeout),
              elapsed[p] + 2)
    /\ UNCHANGED << listenerVars, lastFrame, fullSeen, progress, greeted, shellVars, quiet, nextId, op, arg >>

\* The frames of the sessions around a firmware update.
FirmwareFrames ==
    { AuthSuccess,
      FullStatus,
      Frame("malformed", "absent", <<>>, TRUE, 0, 0) }

\* The frames of a session in which a second task calls connect().
FastPathFrames ==
    { AuthSuccess,
      FullStatus,
      Frame("malformed", "absent", <<>>, TRUE, 0, 0) }

\* State frames that write the keys of the named fields, one of them with
\* two keys.
ViewFrames ==
    { AuthSuccess,
      FullStatus,
      Frame("deltaStatus", "absent", << KV("acs", 1) >>, TRUE, 0, 0),
      Frame("deltaStatus", "absent", << KV("ast", 2) >>, TRUE, 0, 0),
      Frame("deltaStatus", "absent", << KV("amp", 2), KV("cak", 2) >>, TRUE, 0, 0) }

\* The frames of a session in which commands are sent.
CommandFrames == { AuthSuccess, FullStatus }

\* ---- interactive shell ----------------------------------------------------

\* WattpilotShell._watched_property_changed as a listener of the client.
WatchedPropertyChanged == "watched"

\* The properties the user watches and unwatches.
WatchTargets == {"amp", "acs"}

\* Wattpilot(host, password, ...): a new client object.  The transports and
\* read loops of the session bookkeeping are those of earlier objects.
Fresh(c) ==
    [c EXCEPT !.ws = 0, !.task = 0, !.connected = FALSE,
              !.all_props_initialized = FALSE,
              !.connected_event = FALSE, !.initialized_event = FALSE,
              !.auth_error = 0,
              !.all_props = [k \in Keys |-> 0],
              !.amp = 0, !.access_state = 0, !.cak = 0, !.request_id = 0,
              !.device = [serial |-> "", device_type |-> "", secured |-> 0],
              !.auth_hash_type = "pbkdf2",
              !.hashed_password = NoSecret,
              !.property_callbacks = <<>>]

\* The command connect: a new client object replaces the shell's and
\* connect() is called on it.  The command is given when the read loop of
\* the object before has stopped.
ShellConnect(p) ==
    /\ pc[p] = "idle"
    /\ \A s \in Sessions : loopState[s] # "running"
    /\ op' = [op EXCEPT ![p] = "connect"]
    /\ arg' = [arg EXCEPT ![p] = NoArg]
    /\ Take(p, Step(Fresh(Self), "connect", Pending))
    /\ property_callbacks' = <<>>
    /\ message_callbacks' = <<>>
    /\ watchedHere' = {}
    /\ UNCHANGED << watching_properties, lastFrame, fullSeen, progress, greeted,
                    quiet, nextId >>

\* The command watch property target on a connected client that has the
\* property: the listener is registered when the list of watched properties
\* is empty, and the target is added to the list unless it is in it.
ShellWatch(p, target) ==
    /\ pc[p] = "idle"
    /\ connected
    /\ all_props[target] # 0
    /\ watching_properties = <<>> => Len(property_callbacks) < MaxListeners
    /\ property_callbacks' =
          IF watching_properties = <<>>
          THEN Append(property_callbacks, WatchedPropertyChanged)
          ELSE property_callbacks
    /\ watching_properties' =
          IF target \in Registered(watching_properties)
          THEN watching_properties
          ELSE Append(watching_properties, target)
    /\ watchedHere' = watchedHere \cup {target}
    /\ UNCHANGED << clientVars, message_callbacks, lastFrame, fullSeen, progress,
                    greeted, quiet, nextId, callerVars >>

\* The command unwatch property target for a target that is watched.
ShellUnwatch(p, target) ==
    /\ pc[p] = "idle"
    /\ connected
    /\ target \in Registered(watching_properties)
    /\ watching_properties' = Remove(watching_properties, target)
    /\ watchedHere' = watchedHere \ {target}
    /\ UNCHANGED << clientVars, listenerVars, lastFrame, fullSeen, progress,
                    greeted, quiet, nextId, callerVars >>

\* ---- specifications -------------------------------------------------------

Next ==
    \/ ConnectCall("main")
    \/ ConnectEnter("main")
    \/ ConnectOpen("main")
    \/ ConnectRefused("main")
    \/ ConnectResume("main")
    \/ ConnectTimeout("main")
    \/ DisconnectCall("main")
    \/ DisconnectRun("main")
    \/ \E s \in Sessions, f \in SessionFrames : DeviceSend(s, f, MaxInbox)
    \/ \E s \in Sessions : RemoteClose(s)
    \/ \E s \in Sessions : HandleFrame(s)
    \/ \E s \in Sessions : LoopEnd(s)

\* The connection lifecycle of one caller: handshake, initialization,
\* failures, reconnect.
Spec == Init /\ [][Next]_vars

NextStore ==
    \/ ConnectCall("main")
    \/ ConnectEnter("main")
    \/ ConnectOpen("main")
    \/ ConnectResume("main")
    \/ DisconnectCall("main")
    \/ DisconnectRun("main")
    \/ \E cb \in Callbacks : Subscribe(cb)
    \/ \E cb \in Callbacks : Unsubscribe(cb)
    \/ \E s \in Sessions, f \in StateFrames : DeviceSend(s, f, MaxInbox)
    \/ \E s \in Sessions : HandleFrame(s)

\* Established sessions: state frames, property listeners, the property store.
SpecStore == Init /\ [][NextStore]_vars

NextOrder ==
    \/ ConnectCall("main")
    \/ ConnectEnter("main")
    \/ ConnectOpen("main")
    \/ ConnectResume("main")
    \/ \E cb \in Callbacks : Subscribe(cb)
    \/ \E s \in Sessions, f \in StateFrames : DeviceSend(s, f, MaxBacklog)
    \/ \E s \in Sessions : HandleFrame(s)

\* A backlog of state frames waiting for the read loop.
SpecOrder == Init /\ [][NextOrder]_vars

NextAnomalous ==
    \/ ConnectCall("main")
    \/ ConnectEnter("main")
    \/ ConnectOpen("main")
    \/ ConnectResume("main")
    \/ \E cb \in MessageCallbacks : SubscribeMessage(cb)
    \/ \E cb \in MessageCallbacks : UnsubscribeMessage(cb)
    \/ \E s \in Sessions, f \in AnomalousFrames : DeviceSend(s, f, MaxInbox)
    \/ \E s \in Sessions : HandleFrame(s)

\* Frames the client has nothing to do for, and raw-message listeners.
SpecAnomalous == Init /\ [][NextAnomalous]_vars

NextOverlap ==
    \/ \E p \in Callers : ConnectCall(p)
    \/ \E p \in Callers : ConnectEnter(p)
    \/ \E p \in Callers : ConnectOpen(p)
    \/ \E p \in Callers : ConnectResume(p)
    \/ DisconnectCall("main")
    \/ DisconnectRun("main")
    \/ \E s \in Sessions, f \in OverlapFrames : DeviceSend(s, f, MaxInbox)
    \/ \E s \in Sessions : HandleFrame(s)

\* Two tasks that call connect() at overlapping times.
SpecOverlap == Init /\ [][NextOverlap]_vars

NextCommand ==
    \/ ConnectCall("main")
    \/ ConnectEnter("main")
    \/ ConnectOpen("main")
    \/ ConnectResume("main")
    \/ DisconnectCall("main")
    \/ DisconnectRun("main")
    \/ \E p \in Callers, a \in PlainInputs : SetPropertyCall(p, a)
    \/ \E p \in Callers : SetPropertyRun(p)
    \/ \E s \in Sessions, f \in CommandFrames : DeviceSend(s, f, MaxInbox)
    \/ \E s \in Sessions : RemoteClose(s)
    \/ \E s \in Sessions : HandleFrame(s)
    \/ \E s \in Sessions : LoopEnd(s)

\* Commands sent by two tasks while the connection comes and goes.
SpecCommand == Init /\ [][NextCommand]_vars

NextCoerce ==
    \/ ConnectCall("main")
    \/ ConnectEnter("main")
    \/ ConnectOpen("main")
    \/ ConnectResume("main")
    \/ \E a \in CommandInputs : SetPropertyCall("other", a)
    \/ SetPropertyRun("other")
    \/ \E s \in Sessions, f \in CommandFrames : DeviceSend(s, f, MaxInbox)
    \/ \E s \in Sessions : HandleFrame(s)

\* Values of every kind handed to set_property, before and while the client
\* is connected.
SpecCoerce == Init /\ [][NextCoerce]_vars

NextCloud ==
    \/ ConnectCall("main")
    \/ ConnectEnter("main")
    \/ ConnectOpen("main")
    \/ ConnectResume("main")
    \/ \E t \in Timeouts : EnableCloudCall("main", t)
    \/ EnableCloudSend("main")
    \/ EnableCloudWake("main")
    \/ \E s \in Sessions, f \in CloudFrames : DeviceSend(s, f, MaxInbox)
    \/ \E s \in Sessions : RemoteClose(s)
    \/ \E s \in Sessions : HandleFrame(s)
    \/ \E s \in Sessions : LoopEnd(s)

\* enable_cloud_api on a client whose device reports the API key or not.
SpecCloud == Init /\ [][NextCloud]_vars

NextFirmware ==
    \/ ConnectCall("main")
    \/ ConnectEnter("main")
    \/ ConnectOpen("main")
    \/ ConnectRefused("main")
    \/ ConnectResume("main")
    \/ ConnectTimeout("main")
    \/ \E t \in Timeouts : InstallFirmwareCall("main", t)
    \/ FirmwareSend("main")
    \/ FirmwareWake("main")
    \/ FirmwareRetryWake("main")
    \/ \E s \in Sessions, f \in FirmwareFrames : DeviceSend(s, f, MaxInbox)
    \/ \E s \in Sessions : RemoteClose(s)
    \/ \E s \in Sessions : HandleFrame(s)
    \/ \E s \in Sessions : LoopEnd(s)

\* install_firmware_update: the device reboots, the client reconnects.
SpecFirmware == Init /\ [][NextFirmware]_vars

\* The steps of caller p inside install_firmware_update and inside the
\* connect() it calls: a sleep returns, set_property returns or raises,
\* websockets.connect returns or raises, and a wait_for ends with the event
\* set or with its timeout.
CallerStep(p) ==
    \/ ConnectEnter(p)
    \/ ConnectOpen(p)
    \/ ConnectRefused(p)
    \/ ConnectResume(p)
    \/ ConnectTimeout(p)
    \/ FirmwareSend(p)
    \/ FirmwareWake(p)
    \/ FirmwareRetryWake(p)

\* The device sends a frame when the client has read what was sent before.
Prompt(s) == inbox[s] = <<>>

\* No transport was opened yet.
Unopened == nextId = 0

\* The user connects once and then updates the firmware; the reconnects are
\* those of install_firmware_update.
NextFirmwareFair ==
    \/ Unopened /\ ConnectCall("main")
    \/ \E t \in Timeouts : InstallFirmwareCall("main", t)
    \/ CallerStep("main")
    \/ \E s \in Sessions, f \in CommandFrames :
          Prompt(s) /\ DeviceSend(s, f, MaxInbox)
    \/ \E s \in Sessions : RemoteClose(s)
    \/ \E s \in Sessions : HandleFrame(s)
    \/ \E s \in Sessions : LoopEnd(s)

\* install_firmware_update when every await of the caller ends: the event
\* loop resumes a task whose sleep, send, connection attempt or wait_for is
\* over.  Nothing is assumed of the device or of the read loop.
SpecFirmwareFair ==
    Init /\ [][NextFirmwareFair]_vars /\ WF_vars(CallerStep("main"))

NextShell ==
    \/ ShellConnect("main")
    \/ ConnectEnter("main")
    \/ ConnectOpen("main")
    \/ ConnectResume("main")
    \/ DisconnectCall("main")
    \/ DisconnectRun("main")
    \/ \E t \in WatchTargets : ShellWatch("main", t)
    \/ \E t \in WatchTargets : ShellUnwatch("main", t)
    \/ \E s \in Sessions, f \in StateFrames : DeviceSend(s, f, MaxInbox)
    \/ \E s \in Sessions : HandleFrame(s)

\* The interactive shell: connect, watch, unwatch and disconnect commands.
SpecShell == Init /\ [][NextShell]_vars

NextFastPath ==
    \/ \E p \in Callers : ConnectCall(p)
    \/ \E p \in Callers : ConnectEnter(p)
    \/ \E p \in Callers : ConnectOpen(p)
    \/ \E p \in Callers : ConnectResume(p)
    \/ \E p \in Callers : ConnectTimeout(p)
    \/ \E s \in Sessions, f \in FastPathFrames : DeviceSend(s, f, MaxInbox)
    \/ \E s \in Sessions : HandleFrame(s)

\* connect() called on a client that is connected already, by the same task
\* or by another one while the first connect() still waits.
SpecFastPath == Init /\ [][NextFastPath]_vars

NextAsync ==
    \/ ConnectCall("main")
    \/ ConnectEnter("main")
    \/ ConnectOpen("main")
    \/ ConnectResume("main")
    \/ \E cb \in AsyncCallbacks : Subscribe(cb)
    \/ \E cb \in AsyncCallbacks : Unsubscribe(cb)
    \/ \E s \in Sessions, f \in StateFrames : DeviceSend(s, f, MaxInbox)
    \/ \E s \in Sessions : RoomToSchedule(s) /\ HandleFrame(s)
    \/ ListenerTaskRun

\* State frames with a synchronous and an asynchronous property listener.
SpecAsync == Init /\ [][NextAsync]_vars

NextListeners ==
    \/ ConnectCall("main")
    \/ ConnectEnter("main")
    \/ ConnectOpen("main")
    \/ ConnectResume("main")
    \/ \E cb \in PlainCallbacks : OnPropertyChange(cb)
    \/ \E cb \in PlainCallbacks : Unsubscribe(cb)
    \/ OnMessage("mcb")
    \/ UnsubscribeMessage("mcb")
    \/ \E s \in Sessions, f \in StateFrames : DeviceSend(s, f, MaxInbox)
    \/ \E s \in Sessions : HandleFrame(s)

\* Registering and unsubscribing listeners that return, the same listener
\* more than once too.
SpecListeners == Init /\ [][NextListeners]_vars

NextTrip ==
    \/ ConnectCall("main")
    \/ ConnectEnter("main")
    \/ ConnectOpen("main")
    \/ ConnectResume("main")
    \/ \E t \in Departures : SetNextTripCall("main", t)
    \/ SetNextTripRun("main")
    \/ \E s \in Sessions, f \in TripFrames : DeviceSend(s, f, MaxInbox)
    \/ \E s \in Sessions : HandleFrame(s)

\* set_next_trip under the values the device sends for tds.
SpecTrip == Init /\ [][NextTrip]_vars

NextBridge ==
    \/ ConnectCall("main")
    \/ ConnectEnter("main")
    \/ ConnectOpen("main")
    \/ ConnectResume("main")
    \/ \E m \in MqttMessages : OnMqttMessage("other", m)
    \/ OnMqttMessageRun("other")
    \/ SetPropertyRun("other")
    \/ \E s \in Sessions, f \in CommandFrames : DeviceSend(s, f, MaxInbox)
    \/ \E s \in Sessions : HandleFrame(s)

\* The MQTT bridge relaying set commands to the client.
SpecBridge == Init /\ [][NextBridge]_vars

NextAuthError ==
    \/ \E p \in Callers : ConnectCall(p)
    \/ \E p \in Callers : ConnectEnter(p)
    \/ \E p \in Callers : ConnectOpen(p)
    \/ \E p \in Callers : ConnectResume(p)
    \/ \E p \in Callers : ConnectTimeout(p)
    \/ \E s \in Sessions, f \in AuthFrames : DeviceSend(s, f, MaxInbox)
    \/ \E s \in Sessions : HandleFrame(s)

\* Handshakes that the device refuses, with one or two tasks calling
\* connect().
SpecAuthError == Init /\ [][NextAuthError]_vars

\* A challenge is sent while fewer than MaxRequests frames were handed over.
RoomToAnswer(f) == f.type = "authRequired" => Len(sent) < MaxRequests

NextHandshake ==
    \/ ConnectCall("main")
    \/ ConnectEnter("main")
    \/ ConnectOpen("main")
    \/ ConnectResume("main")
    \/ ConnectTimeout("main")
    \/ DisconnectCall("main")
    \/ DisconnectRun("main")
    \/ \E s \in Sessions, f \in HandshakeFrames :
          RoomToAnswer(f) /\ DeviceSend(s, f, MaxInbox)
    \/ \E s \in Sessions : HandleFrame(s)

\* The handshake: greeting, challenge and answer.
SpecHandshake == Init /\ [][NextHandshake]_vars

NextSecured ==
    \/ ConnectCall("main")
    \/ ConnectEnter("main")
    \/ ConnectOpen("main")
    \/ ConnectResume("main")
    \/ \E a \in PlainInputs : SetPropertyCall("main", a)
    \/ SetPropertyRun("main")
    \/ \E s \in Sessions, f \in SecuredFrames :
          RoomToAnswer(f) /\ DeviceSend(s, f, MaxInbox)
    \/ \E s \in Sessions : HandleFrame(s)

\* Commands to a device whose greeting says whether they must be signed.
SpecSecured == Init /\ [][NextSecured]_vars

NextSecret ==
    \/ ConnectCall("main")
    \/ ConnectEnter("main")
    \/ ConnectOpen("main")
    \/ ConnectResume("main")
    \/ DisconnectCall("main")
    \/ DisconnectRun("main")
    \/ \E a \in PlainInputs : SetPropertyCall("main", a)
    \/ SetPropertyRun("main")
    \/ \E s \in Sessions, f \in SecretFrames :
          RoomToAnswer(f) /\ DeviceSend(s, f, MaxInbox)
    \/ \E s \in Sessions : HandleFrame(s)

\* Signed commands over sessions whose greetings name different serials.
SpecSecret == Init /\ [][NextSecret]_vars

\* The device greets once in a session, before anything else was greeted.
OneGreeting(s, f) ==
    f.type = "hello"
        => /\ s = ws
           /\ ~greeted
           /\ \A i \in 1..Len(inbox[s]) : inbox[s][i].type # "hello"

NextIdentity ==
    \/ ConnectCall("main")
    \/ ConnectEnter("main")
    \/ ConnectOpen("main")
    \/ ConnectResume("main")
    \/ ConnectTimeout("main")
    \/ DisconnectCall("main")
    \/ DisconnectRun("main")
    \/ \E s \in Sessions, f \in IdentityFrames :
          OneGreeting(s, f) /\ DeviceSend(s, f, MaxInbox)
    \/ \E s \in Sessions : HandleFrame(s)

\* Sessions that follow one another, each with one greeting.
SpecIdentity == Init /\ [][NextIdentity]_vars

NextResponse ==
    \/ ConnectCall("main")
    \/ ConnectEnter("main")
    \/ ConnectOpen("main")
    \/ ConnectResume("main")
    \/ \E cb \in Callbacks : Subscribe(cb)
    \/ \E cb \in Callbacks : Unsubscribe(cb)
    \/ \E s \in Sessions, f \in ResponseFrames : DeviceSend(s, f, MaxInbox)
    \/ \E s \in Sessions : HandleFrame(s)

\* Command responses arriving while listeners come and go.
SpecResponse == Init /\ [][NextResponse]_vars

NextDispatch ==
    \/ ConnectCall("main")
    \/ ConnectEnter("main")
    \/ ConnectOpen("main")
    \/ ConnectResume("main")
    \/ \E cb \in OnceCallbacks : Subscribe(cb)
    \/ \E cb \in OnceCallbacks : Unsubscribe(cb)
    \/ \E s \in Sessions, f \in StateFrames : DeviceSend(s, f, MaxInbox)
    \/ \E s \in Sessions : HandleFrame(s)

\* Listeners that unsubscribe themselves while they are called.
SpecDispatch == Init /\ [][NextDispatch]_vars

NextViews ==
    \/ ConnectCall("main")
    \/ ConnectEnter("main")
    \/ ConnectOpen("main")
    \/ ConnectResume("main")
    \/ DisconnectCall("main")
    \/ DisconnectRun("main")
    \/ \E s \in Sessions, f \in ViewFrames : DeviceSend(s, f, MaxInbox)
    \/ \E s \in Sessions : HandleFrame(s)

\* The property store and the named fields under state frames, without
\* listeners.
SpecViews == Init /\ [][NextViews]_vars

\* ---- what the claims speak of ---------------------------------------------

\* The call caller p is in ends in this step (it returns or raises).
Returned(p) == pc[p] # "idle" /\ pc'[p] = "idle"

\* The read loop of session s handles a frame in this step.
Handled(s) ==
    /\ loopState[s] = "running"
    /\ loopState'[s] \in {"running", "failed"}
    /\ Len(inbox'[s]) < Len(inbox[s])

\* No read loop is running.
Stopped == \A s \in Sessions : loopState[s] # "running"

\* The connection is torn down: not connected, no read loop, no open transport.
TornDown ==
    /\ ~connected
    /\ Stopped
    /\ \A s \in Sessions : transport[s] # "open"

\* The client holds no transport and no read loop, and its flags are clear.
Disconnected ==
    /\ ws = 0
    /\ task = 0
    /\ ~connected
    /\ ~connected_event
    /\ ~initialized_event

\* The keys a frame carries, and the value it carries for a key.
Carried(f) == {f.status[i].k : i \in 1..Len(f.status)}

ValueIn(f, k) ==
    LET i == CHOOSE j \in 1..Len(f.status) :
                 /\ f.status[j].k = k
                 /\ \A m \in (j + 1)..Len(f.status) : f.status[m].k # k
    IN  f.status[i].v

\* The frames that carry property values for the store.
CarriesState(f) ==
    \/ f.type \in {"fullStatus", "deltaStatus"}
    \/ f.type = "response" /\ f.success

\* The frames the client is to take no action for.
Ignored(f) ==
    \/ f.type \in {"unknownType", "clearInverters", "updateInverter"}
    \/ f.type = "response" /\ ~f.success

\* C1: whenever connect() returns normally, connected and
\* properties_initialized are both True.
C1_ConnectReturnsReady ==
    [][\A p \in Callers :
          (Returned(p) /\ op[p] = "connect" /\ result'[p].kind = "ok")
             => (connected' /\ all_props_initialized')]_vars

\* C2: a connect() that wakes from the wait for the connected-event and finds
\* the error of an authError frame raises AuthenticationError with the
\* server's message, and has torn the connection down when it does.
C2_AuthErrorRaised ==
    [][\A p \in Callers :
          (Returned(p) /\ pc[p] = "wait_connected" /\ woken[p] /\ auth_error # 0)
             => (/\ result'[p] = Outcome("AuthenticationError", auth_error)
                 /\ TornDown')]_vars

\* C3: a connect() whose wait for the connected-event or for the
\* initialized-event times out raises ConnectionError, and has torn the
\* connection down when it does.
C3_TimeoutRaisesTornDown ==
    [][\A p \in Callers :
          (Returned(p) /\ pc[p] \in {"wait_connected", "wait_init"} /\ ~woken[p])
             => (result'[p].kind = "ConnectionError" /\ TornDown')]_vars

\* C4: in every session a fullStatus frame with partial true leaves the
\* initialized-event as it is and wakes no connect(); a fullStatus frame
\* without the indicator, or with it false, sets the initialized-event.
C4_PartialKeepsWaiting ==
    [][\A s \in Sessions :
          (Handled(s) /\ Head(inbox[s]).type = "fullStatus")
             => IF Head(inbox[s]).partial = "true"
                THEN initialized_event' = initialized_event /\ woken' = woken
                ELSE initialized_event']_vars

\* C5: in every session a deltaStatus frame handled after authentication and
\* before any fullStatus frame sets the initialized-event, and wakes a
\* connect() that waits for it.
C5_DeltaInitializes ==
    [][\A s \in Sessions :
          (Handled(s) /\ Head(inbox[s]).type = "deltaStatus"
                      /\ connected /\ ~fullSeen)
             => (/\ initialized_event'
                 /\ \A p \in Callers : pc[p] = "wait_init" => woken'[p])]_vars

\* C6: disconnect() never raises; from any state it leaves the read loop
\* stopped, the transport closed, connected False and both events clear; on
\* a client that is disconnected already it changes nothing.
C6_DisconnectIdempotent ==
    [][\A p \in Callers :
          (Returned(p) /\ pc[p] = "disconnect")
             => (/\ result'[p].kind = "ok"
                 /\ TornDown'
                 /\ Disconnected'
                 /\ (Disconnected => UNCHANGED clientVars))]_vars

\* C7: once disconnect() has returned, and until a connect() starts a new
\* read loop, no frame is handled: no read loop takes a frame, the property
\* store and the named fields stay as they are and no listener is called.
C7_NoFrameAfterDisconnect ==
    [][(quiet /\ \A p \in Callers : pc[p] = "idle")
          => (/\ \A s \in Sessions : ~Handled(s)
              /\ UNCHANGED << all_props, amp, access_state, calls >>)]_vars

\* C8: the read loop handles the frame that arrived first, and when it has
\* handled it every key the frame carries holds the frame's value in the
\* store, with the listeners called for it, before the next frame is taken.
C8_ArrivalOrder ==
    [][\A s \in Sessions :
          Handled(s) =>
             LET f == Head(inbox[s])
             IN  /\ lastFrame' = f
                 /\ CarriesState(f) =>
                       /\ \A k \in Keys :
                             all_props'[k] = IF k \in Carried(f)
                                             THEN ValueIn(f, k)
                                             ELSE all_props[k]
                       /\ \A k \in Carried(f) :
                          \A cb \in Registered(property_callbacks) :
                             \E i \in 1..Len(calls') :
                                calls'[i] = [cb |-> cb, key |-> k,
                                             value |-> ValueIn(f, k)]]_vars

\* C9: handling a deltaStatus frame changes the store entries and the named
\* fields of the keys the frame carries and no others, and calls every
\* registered property-change listener exactly once for each carried key,
\* with the key and its new value.
C9_DeltaTouchesCarriedKeys ==
    [][\A s \in Sessions :
          (Handled(s) /\ Head(inbox[s]).type = "deltaStatus") =>
             LET f == Head(inbox[s])
             IN  /\ \A k \in Keys :
                       all_props'[k] = IF k \in Carried(f)
                                       THEN ValueIn(f, k)
                                       ELSE all_props[k]
                 /\ amp' = IF "amp" \in Carried(f) THEN ValueIn(f, "amp") ELSE amp
                 /\ Carried(f) \cap {"acs", "ast"} = {} => access_state' = access_state
                 /\ \A k \in Carried(f) :
                    \A cb \in Registered(property_callbacks) :
                       Cardinality({i \in 1..Len(calls') :
                                      calls'[i] = [cb |-> cb, key |-> k,
                                                   value |-> ValueIn(f, k)]}) = 1
                 /\ Len(calls') = Len(property_callbacks) * Cardinality(Carried(f))]_vars

\* C10: handling a frame of unknown type, an inverter frame or a failed
\* command response leaves the connection state and the property store as
\* they are, and the read loop keeps running.
C10_AnomalousFrameIgnored ==
    [][\A s \in Sessions :
          (Handled(s) /\ Ignored(Head(inbox[s]))) =>
             /\ UNCHANGED << ws, task, connected, connected_event,
                             initialized_event, all_props_initialized,
                             auth_error, all_props, amp, access_state,
                             transport >>
             /\ loopState'[s] = "running"]_vars

\* C11: when the read loop finds its transport closed by the remote side, in
\* whatever state the connection is, it ends without an exception: no call of
\* a caller ends in that step, a later disconnect() that awaits the ended
\* task does not raise, and the client is not-connected afterwards
\* (connected False, connected-event clear).
C11_RemoteCloseEndsLoop ==
    [][/\ \A s \in Sessions :
             (loopState[s] = "running" /\ transport[s] = "remote_closed"
                                       /\ inbox[s] = <<>>)
                => /\ loopState'[s] \in {"running", "ended", "cancelled"}
                   /\ loopState'[s] = "ended" =>
                         /\ ~connected'
                         /\ ~connected_event'
                         /\ pc' = pc
                         /\ result' = result
       /\ \A p \in Callers :
             (Returned(p) /\ pc[p] = "disconnect" /\ task # 0
                          /\ loopState[task] = "ended")
                => result'[p].kind = "ok"]_vars

\* The read loop of an initialized session has ended on a remote close.
C11_Witness ==
    /\ ws # 0
    /\ loopState[ws] = "ended"
    /\ transport[ws] = "remote_closed"
    /\ fullSeen
    /\ ~connected
    /\ ~connected_event

\* The values the claim takes to have a counterpart of the schema type:
\* booleans, numbers and the recognised texts for a boolean property;
\* booleans, integers and finite numbers, also as text, for an integer
\* property; booleans and numbers, also as text, for a float property.
Coercible(json_type, value) ==
    CASE json_type = "boolean" ->
           \/ value.t \in {"bool", "int", "float"}
           \/ /\ value.t = "str"
              /\ Lower(value.v) \in {"true", "1", "yes", "false", "0", "no"}
      [] json_type = "integer" ->
           \/ value.t \in {"bool", "int"}
           \/ /\ value.t \in {"float", "str"}
              /\ value.v \in FloatText \ {"inf", "nan"}
      [] json_type = "float" ->
           \/ value.t \in {"bool", "int", "float"}
           \/ value.t = "str" /\ value.v \in FloatText
      [] OTHER -> TRUE

\* C12: a set_property whose value has no counterpart of the schema type of
\* the key raises PropertyError, hands no frame to the transport and leaves
\* the request-id counter as it is.
C12_UncoercibleRaisesPropertyError ==
    [][\A p \in Callers :
          (/\ Returned(p)
           /\ pc[p] = "set_property"
           /\ ~Coercible(JsonType(arg[p].name), arg[p].value))
             => (/\ result'[p].kind = "PropertyError"
                 /\ sent' = sent
                 /\ request_id' = request_id)]_vars

\* C13: every frame handed to a transport carries a request id greater than
\* the ids of all frames handed over before, on whatever transport and by
\* whichever caller; frames handed over stay as they are.
C13_RequestIdsIncrease ==
    [][sent' # sent =>
          /\ Len(sent') = Len(sent) + 1
          /\ SubSeq(sent', 1, Len(sent)) = sent
          /\ sent'[Len(sent')].requestId > 0
          /\ \A i \in 1..Len(sent) :
                sent[i].requestId < sent'[Len(sent')].requestId]_vars

\* Two frames were handed over, one before and one after a reconnect.
C13_Witness ==
    /\ Len(sent) >= 2
    /\ sent[1].ws # sent[2].ws
    /\ sent[1].requestId < sent[2].requestId

\* C14: a set_property made while the client is not connected raises
\* ConnectionError and hands nothing to the transport, whether the client
\* was never connected, was disconnected, or lost its transport to the
\* remote side (no connect() being under way).
C14_NotConnectedRaises ==
    [][\A p \in Callers :
          (/\ Returned(p)
           /\ pc[p] = "set_property"
           /\ ~connected
           /\ \A q \in Callers : op[q] = "connect" => pc[q] = "idle"
           /\ Coercible(JsonType(arg[p].name), arg[p].value))
             => (/\ result'[p].kind = "ConnectionError"
                 /\ sent' = sent)]_vars

\* C15: enable_cloud_api first hands one set-value frame that enables the
\* cloud flag to the transport and then only polls; it returns a CloudInfo
\* only at a poll within the timeout at which the store holds a non-empty API
\* key, and the CloudInfo carries that key; a call that does not return a
\* CloudInfo raises ConnectionError.
C15_CloudKeyOrConnectionError ==
    [][\A p \in Callers :
          /\ (pc[p] = "cloud_send" /\ pc'[p] # "cloud_send"
                                   /\ result'[p].kind \in {"pending", "CloudInfo"})
                => sent' = Append(sent, [Message(request_id', "cae",
                                                 Val("bool", "True"))
                                           EXCEPT !.ws = ws])
          /\ (pc[p] = "cloud_sleep" /\ pc'[p] # pc[p]) => sent' = sent
          /\ (Returned(p) /\ op[p] = "enable_cloud_api") =>
                /\ result'[p].kind \in {"CloudInfo", "ConnectionError"}
                /\ result'[p].kind = "CloudInfo" =>
                      /\ all_props'["cak"] \notin {0, CakEmpty}
                      /\ result'[p].msg = all_props'["cak"]
                      /\ elapsed'[p] < arg[p].timeout]_vars

\* C16: an enable_cloud_api that times out waiting for the API key, and an
\* install_firmware_update that times out waiting for the connection to
\* drop, has torn the connection down when it raises ConnectionError.
C16_PollTimeoutTearsDown ==
    [][\A p \in Callers :
          (/\ Returned(p)
           /\ pc[p] \in {"cloud_send", "cloud_sleep", "fw_send", "fw_wait_drop"}
           /\ result'[p].kind = "ConnectionError"
           /\ arg[p].timeout > 0
           /\ elapsed'[p] >= arg[p].timeout)
             => TornDown']_vars

\* C17: an install_firmware_update that has sent the update trigger raises
\* ConnectionError if the client is still connected when the timeout is
\* used up, attempts connect() only after the connection has dropped and
\* while the timeout is not used up, returns normally only from a connect()
\* that succeeded, with connected True, and otherwise raises ConnectionError.
C17_FirmwareReconnects ==
    [][\A p \in Callers :
          (op[p] = "install_firmware_update" /\ pc[p] # "fw_send") =>
             /\ (pc[p] = "fw_wait_drop" /\ pc'[p] # pc[p] /\ connected
                     /\ elapsed'[p] >= arg[p].timeout)
                   => (Returned(p) /\ result'[p].kind = "ConnectionError")
             /\ (pc[p] \in {"fw_wait_drop", "fw_retry_sleep"}
                     /\ pc'[p] = "opening")
                   => (~connected /\ elapsed'[p] < arg[p].timeout)
             /\ Returned(p) =>
                   /\ result'[p].kind \in {"ok", "ConnectionError"}
                   /\ result'[p].kind = "ok" =>
                         /\ pc[p] \in {"wait_connected", "wait_init"}
                         /\ connected']_vars

\* C18: a connect() that finds the client connected opens no transport and
\* starts no read loop; it returns at once only if the properties are
\* initialized and else waits for the initialized-event; when it returns
\* normally the properties are initialized, and when the wait times out it
\* raises ConnectionError with the client disconnected (connected False).
C18_FastPathWaits ==
    [][\A p \in Callers :
          /\ (pc[p] = "connect" /\ connected /\ pc'[p] # pc[p]) =>
                /\ UNCHANGED << ws, task, nextId, transport, loopState >>
                /\ pc'[p] = IF all_props_initialized THEN "idle" ELSE "fast_wait"
                /\ pc'[p] = "idle" => result'[p].kind = "ok"
          /\ (pc[p] = "fast_wait" /\ Returned(p)) =>
                IF woken[p]
                THEN /\ result'[p].kind = "ok"
                     /\ all_props_initialized'
                     /\ UNCHANGED << ws, task, nextId, transport, loopState >>
                ELSE /\ result'[p].kind = "ConnectionError"
                     /\ ~connected'
                     /\ Disconnected']_vars

\* C19: the named fields are views of the property store: after every step
\* amp and the cloud key are the store's entries of their keys, and the
\* access state is determined by the store, so that a step which leaves the
\* store as it is leaves the access state as it is.
C19_NamedFieldsAreViews ==
    [][/\ amp' = all_props'["amp"]
       /\ cak' = all_props'["cak"]
       /\ all_props' = all_props => access_state' = access_state]_vars

\* C20: an asynchronous property listener runs as a task of its own, and its
\* failure stays in that task.  Whenever the read loop handles a state frame
\* while the asynchronous listener is registered, before or after one of its
\* tasks has failed, every carried key is stored, every registered listener
\* is called for every key, one task is created for each key, the read loop
\* keeps running and connected is as before; and the step in which a
\* listener task fails changes nothing of the client, its read loops or its
\* transports.
C20_AsyncListenerFailureIsContained ==
    [][/\ \A s \in Sessions :
            (/\ Handled(s)
             /\ CarriesState(lastFrame')
             /\ "acb" \in Registered(property_callbacks))
            => /\ loopState'[s] = "running"
               /\ transport' = transport
               /\ connected' = connected
               /\ \A k \in Carried(lastFrame') :
                      all_props'[k] = ValueIn(lastFrame', k)
               /\ Len(calls') = Len(property_callbacks) * Len(lastFrame'.status)
               /\ \A k \in Carried(lastFrame') :
                      \A cb \in Registered(property_callbacks) :
                          \E i \in 1..Len(calls') :
                              calls'[i].cb = cb /\ calls'[i].key = k
               /\ scheduled'.waiting
                     = scheduled.waiting + Len(lastFrame'.status)
       /\ scheduled'.waiting < scheduled.waiting
            => /\ scheduled'.failed
               /\ UNCHANGED << ws, task, connected, all_props_initialized,
                               connected_event, initialized_event, auth_error,
                               all_props, amp, access_state, loopState,
                               transport, inbox, calls, listenerVars >>]_vars

\* A listener task has failed and a state frame was handled after that, with
\* both listeners registered: the read loop runs and the client is connected.
C20_Witness ==
    /\ scheduled.failed
    /\ scheduled.waiting = MaxScheduled
    /\ Registered(property_callbacks) = AsyncCallbacks
    /\ CarriesState(lastFrame)
    /\ Len(calls) = 2 * Len(lastFrame.status)
    /\ connected
    /\ \E s \in Sessions : loopState[s] = "running" /\ transport[s] = "open"

\* C21: the function on_property_change / on_message returned unsubscribes
\* exactly its listener.  The listeners invoked for a frame are those of the
\* lists, so: the step in which the function is called leaves its listener in
\* no place of its list and every other listener where it was, and a frame
\* handled afterwards invokes every registered listener and no other.
C21_UnsubscribeRemovesListener ==
    [][/\ \A cb \in Registered(property_callbacks) :
             property_callbacks' = Remove(property_callbacks, cb)
                => /\ cb \notin Registered(property_callbacks')
                   /\ Registered(property_callbacks')
                        = Registered(property_callbacks) \ {cb}
       /\ \A cb \in Registered(message_callbacks) :
             message_callbacks' = Remove(message_callbacks, cb)
                => /\ cb \notin Registered(message_callbacks')
                   /\ Registered(message_callbacks')
                        = Registered(message_callbacks) \ {cb}
       /\ \A s \in Sessions :
             (Handled(s) /\ Head(inbox[s]).type # "malformed")
                => /\ Registered(message_calls') = Registered(message_callbacks)
                   /\ \A k \in Carried(Head(inbox[s])) :
                         CarriesState(Head(inbox[s]))
                            => {calls'[i].cb : i \in {j \in 1..Len(calls') :
                                                        calls'[j].key = k}}
                                 = Registered(property_callbacks)]_vars

\* C22: a set_next_trip made on an open transport writes ftt: it returns
\* normally and has handed over one frame for the key ftt whose value is
\* hour * 3600 + minute * 60 + second of the given time, with 3600 added
\* exactly when the store's tds is 1 or 2.
C22_NextTripSeconds ==
    [][\A p \in Callers :
          (/\ Returned(p)
           /\ pc[p] = "set_next_trip"
           /\ ws # 0
           /\ transport[ws] = "open")
             => LET t == arg[p].value.v
                    seconds == t.hour * 3600 + t.minute * 60 + t.second
                IN  /\ result'[p].kind = "ok"
                    /\ Len(sent') = Len(sent) + 1
                    /\ sent'[Len(sent')].key = "ftt"
                    /\ sent'[Len(sent')].value.v
                          = IF all_props["tds"] \in {1, 2} THEN seconds + 3600
                            ELSE seconds]_vars

C24_LoopFailureIsCleanedUp ==
    [][/\ \A s \in Sessions :
             (loopState[s] = "running" /\ loopState'[s] = "failed")
                => ~connected'
       /\ \A p \in Callers :
             (/\ Returned(p)
              /\ task # 0
              /\ loopState[task] = "failed")
                => /\ pc[p] = "disconnect"
                      => /\ result'[p].kind = "ok"
                         /\ TornDown'
                   /\ pc[p] \in {"wait_connected", "wait_init"}
                      => /\ result'[p].kind # "ok"
                         /\ TornDown']_vars

\* C25: the authError handler stores the error and sets the connected-event
\* in one step, and a connect() that the connected-event woke and that
\* resumes while the authError frame is the frame handled last ends with
\* that authentication error: it does not go on to wait for the properties
\* and does not return normally.
C25_WokenConnectSeesAuthError ==
    [][/\ \A s \in Sessions :
             (Handled(s) /\ Head(inbox[s]).type = "authError"
                         /\ loopState'[s] = "running")
                => auth_error' # 0 /\ connected_event'
       /\ \A p \in Callers :
             (/\ pc[p] = "wait_connected"
              /\ woken[p]
              /\ lastFrame.type = "authError"
              /\ pc'[p] # pc[p])
                => /\ pc'[p] = "idle"
                   /\ result'[p].kind = "AuthenticationError"]_vars

\* C26: at any time at most one read loop of the client is running and at
\* most one transport of the client is open, also when calls of connect()
\* overlap.
C26_OneReadLoop ==
    /\ Cardinality({s \in Sessions : loopState[s] = "running"}) <= 1
    /\ Cardinality({s \in Sessions : transport[s] = "open"}) <= 1

\* C27: for every challenge the read loop handles without failing, the algorithm of the
\* client afterwards is the challenge's indicator when it has one, bcrypt
\* when it has none and the device type of the greeting is the flex variant,
\* and PBKDF2 otherwise; and the auth frame sent for it is computed from the
\* secret of that algorithm.
C27_AlgorithmOfChallenge ==
    [][\A s \in Sessions :
          (Handled(s) /\ Head(inbox[s]).type = "authRequired"
                      /\ loopState'[s] = "running")
             => LET f == Head(inbox[s])
                    algorithm == IF f.hash # "absent" THEN f.hash
                                 ELSE IF device.device_type = "wattpilot_flex"
                                 THEN "bcrypt"
                                 ELSE "pbkdf2"
                IN  /\ auth_hash_type' = algorithm
                    /\ sent' # sent
                          => sent'[Len(sent')].hash.secret.hash_type
                               \in {algorithm, ""}]_vars

\* C28: whenever connect() returns normally, the session of the client's
\* transport has received authSuccess and, after it, a fullStatus that is
\* not partial or a deltaStatus (stated for the sessions in which the device
\* sent no state frame before authSuccess).
C28_ConnectWaitsForState ==
    [][\A p \in Callers :
          (/\ Returned(p)
           /\ op[p] = "connect"
           /\ result'[p].kind = "ok"
           /\ progress' # 3)
             => progress' = 2]_vars

\* C29: the client hands a frame to a transport only when it handles a
\* challenge, and for every challenge it handles it hands over exactly one
\* frame: a plain auth frame with a token3 that no earlier auth frame had and
\* the response computed from the tokens of the challenge, this token3 and
\* the secret.
C29_OneAuthFramePerChallenge ==
    [][/\ sent' # sent
          => \E s \in Sessions :
                Handled(s) /\ Head(inbox[s]).type = "authRequired"
       /\ \A s \in Sessions :
             (Handled(s) /\ Head(inbox[s]).type = "authRequired")
                => LET f == Head(inbox[s])
                       m == sent'[Len(sent')]
                   IN  /\ Len(sent') = Len(sent) + 1
                       /\ SubSeq(sent', 1, Len(sent)) = sent
                       /\ m.type = "auth"
                       /\ \A i \in 1..Len(sent) :
                             sent[i].type = "auth" => sent[i].token3 # m.token3
                       /\ m.hash = ComputeAuthResponse(f.token1, f.token2,
                                                       m.token3,
                                                       hashed_password')]_vars

\* C30: the frame that set_property hands to the transport is the envelope of
\* the set-value frame (type "securedMsg", the frame as data, its request id
\* with "sm" appended, the HMAC of the data under the cached secret) when the
\* secured flag of the device is greater than zero, and is the set-value
\* frame itself when it is not.
C30_SignedExactlyWhenSecured ==
    [][\A p \in Callers :
         (pc[p] = "set_property" /\ pc'[p] = "idle" /\ sent' # sent)
            => LET m == sent'[Len(sent')]
                   inner == Message(request_id', arg[p].name,
                                    CoerceValue(arg[p].name, arg[p].value).value)
               IN  /\ Len(sent') = Len(sent) + 1
                   /\ IF device.secured > 0
                      THEN /\ m.type = "securedMsg"
                           /\ m.data = inner
                           /\ m.requestId = << inner.requestId, "sm" >>
                           /\ m.hmac = [key |-> hashed_password, data |-> inner]
                      ELSE [m EXCEPT !.ws = 0] = inner]_vars

\* A signed and a plain set-value frame were sent, the signed one under a
\* secret derived from the serial of the greeting.
C30_Witness ==
    /\ \E i \in 1..Len(sent) :
          sent[i].type = "securedMsg" /\ sent[i].hmac.key # NoSecret
    /\ \E i \in 1..Len(sent) : sent[i].type = "setValue"

\* C31: when an auth response is computed for a challenge that arrives after
\* a greeting, and when set_property signs an envelope, the secret that is
\* used is the one derived from the serial and the algorithm the client
\* holds at that time.
C31_SecretIsDerivedWhenUsed ==
    [][/\ \A s \in Sessions :
             ( /\ Handled(s)
               /\ Head(inbox[s]).type = "authRequired"
               /\ device.serial # ""
               /\ sent' # sent )
                => sent'[Len(sent')].hash.secret
                      = Secret(device'.serial, auth_hash_type')
       /\ \A p \in Callers :
             ( /\ pc[p] = "set_property"
               /\ pc'[p] = "idle"
               /\ sent' # sent
               /\ sent'[Len(sent')].type = "securedMsg" )
                => sent'[Len(sent')].hmac.key
                      = Secret(device.serial, auth_hash_type)]_vars

\* C32: when the first greeting of the session of the current transport is
\* handled, the device record afterwards holds what this greeting says and
\* nothing else: its serial and device type, and its secured flag, which is
\* 0 when the greeting has none.
C32_IdentityOfTheSession ==
    [][\A s \in Sessions :
         ( /\ Handled(s)
           /\ s = ws
           /\ ~greeted
           /\ Head(inbox[s]).type = "hello"
           /\ Head(inbox[s]).serial # <<>> )
            => LET f == Head(inbox[s])
               IN  device' = [serial |-> f.serial[1],
                              device_type |-> f.devicetype,
                              secured |-> IF f.secured = <<>> THEN 0
                                          ELSE f.secured[1]]]_vars

\* C33: when a frame that carries state is handled while a property-change
\* listener that raises is registered, the read loop is still running
\* afterwards and every listener that does not raise was called for every
\* key of the frame.
C33_RaisingListenerIsAbsorbed ==
    [][\A s \in Sessions :
         ( /\ Handled(s)
           /\ CarriesState(Head(inbox[s]))
           /\ Raises(property_callbacks) )
            => LET f == Head(inbox[s])
               IN  /\ loopState'[s] = "running"
                   /\ \A k \in Carried(f) :
                      \A cb \in Registered(property_callbacks) \ Raising :
                         \E j \in 1..Len(calls') :
                            calls'[j] = [cb |-> cb, key |-> k,
                                         value |-> ValueIn(f, k)]]_vars

\* The deltaStatus frame with the key/value pairs of frame f.
DeltaOf(f) == [f EXCEPT !.type = "deltaStatus"]

\* The client after the read loop of session s has handled frame f in place
\* of the frame that is next.
HadHandled(s, f) ==
    LoopTakes([Self EXCEPT !.inbox[s] = << f >> \o Tail(@)], s)

\* C34: handling a command response with success true leaves the property
\* store, the named fields and the listener calls (made and scheduled) as
\* handling a deltaStatus frame with the same key/value pairs in the same
\* state would have left them.
C34_ResponseMergesLikeDelta ==
    [][\A s \in Sessions :
         ( /\ Handled(s)
           /\ Head(inbox[s]).type = "response"
           /\ Head(inbox[s]).success )
            => LET d == HadHandled(s, DeltaOf(Head(inbox[s])))
               IN  /\ all_props' = d.all_props
                   /\ amp' = d.amp
                   /\ access_state' = d.access_state
                   /\ cak' = d.cak
                   /\ calls' = d.calls
                   /\ scheduled' = d.scheduled]_vars

\* A successful response with two keys was handled and a listener was called
\* for both.
C34_Witness ==
    /\ lastFrame.type = "response"
    /\ lastFrame.success
    /\ Len(lastFrame.status) = 2
    /\ all_props["acs"] = 1
    /\ access_state = 1
    /\ Len(calls) = 2

\* C35: when a frame that carries state has been handled, every listener
\* that is registered afterwards, whatever the listeners that were called
\* unsubscribed meanwhile, was called for every key of the frame.
C35_NoRemainingListenerSkipped ==
    [][\A s \in Sessions :
         ( /\ Handled(s)
           /\ CarriesState(Head(inbox[s]))
           /\ loopState'[s] = "running" )
            => LET f == Head(inbox[s])
               IN  \A k \in Carried(f) :
                   \A cb \in Registered(property_callbacks') :
                      \E j \in 1..Len(calls') :
                         calls'[j] = [cb |-> cb, key |-> k,
                                      value |-> ValueIn(f, k)]]_vars

\* C36: while connected is True the client holds a transport that it has not
\* closed and the read loop it holds is running on that transport; while it
\* holds no read loop, or the one it holds is not running, connected is
\* False.
C36_ConnectedMeansLoopRunning ==
    /\ connected
          => /\ ws # 0
             /\ transport[ws] \in {"open", "remote_closed"}
             /\ task = ws
             /\ loopState[ws] = "running"
    /\ (task = 0 \/ loopState[task] # "running") => ~connected

\* C37: no step resets all_props_initialized to False, and no step removes
\* from the property store a key that it holds.
C37_ReceivedStatePersists ==
    [][/\ all_props_initialized => all_props_initialized'
       /\ \A k \in Keys : all_props[k] # 0 => all_props'[k] # 0]_vars

\* A second session has begun after a disconnect and has received no state
\* yet: the store and the flag still hold what the first session left.
C37_Witness ==
    /\ nextId = 2
    /\ ws = 2
    /\ progress = 0
    /\ ~fullSeen
    /\ all_props_initialized
    /\ all_props["amp"] = 1

\* C38: the value of every frame that set_next_trip hands over for the key
\* ftt is a number of seconds within one day: at least 0 and less than
\* 86400.
C38_NextTripWithinTheDay ==
    [][\A p \in Callers :
         ( /\ pc[p] = "set_next_trip"
           /\ pc'[p] = "idle"
           /\ sent' # sent )
            => LET m == sent'[Len(sent')]
               IN  /\ m.key = "ftt"
                   /\ 0 <= m.value.v
                   /\ m.value.v < 86400]_vars

\* Caller p is inside install_firmware_update.
InFirmware(p) == op[p] = "install_firmware_update" /\ pc[p] # "idle"

\* C39: a call of install_firmware_update ends, by returning or by raising,
\* when each await of the caller ends; once the update trigger is sent its
\* elapsed count stays within the timeout (one beyond it at most, the last sleep being of two
\* seconds), so the polls and the reconnect attempts are bounded by it.
C39_FirmwareUpdateTerminates ==
    /\ [](\A p \in Callers :
            (InFirmware(p) /\ pc[p] # "fw_send")
               => elapsed[p] <= arg[p].timeout + 1)
    /\ \A p \in Callers : InFirmware(p) ~> ~InFirmware(p)

\* The call has polled, found the connection dropped and failed to reconnect
\* at least once: it sleeps before the next attempt.
C39_Witness ==
    /\ op["main"] = "install_firmware_update"
    /\ pc["main"] = "fw_retry_sleep"
    /\ elapsed["main"] > 0

\* C40: when a frame is handled that carries a property whose watch command
\* succeeded on the shell's current client and that was not unwatched since,
\* the shell's listener is called exactly once for that property, and the
\* property is in the list of watched properties, so that the change is
\* printed once.
C40_WatchedChangeReportedOnce ==
    [][\A s \in Sessions :
         (Handled(s) /\ CarriesState(Head(inbox[s])))
            => \A k \in Carried(Head(inbox[s])) \cap watchedHere :
                  /\ k \in Registered(watching_properties)
                  /\ Cardinality({j \in 1..Len(calls') :
                                    /\ calls'[j].cb = WatchedPropertyChanged
                                    /\ calls'[j].key = k}) = 1]_vars

====
